---- MODULE Spec2Model ----
(***************************************************************************)
(* The crawl -> score pipeline of scrapper-dashboard:                      *)
(*   backend/crawler/crawler_consumer.py  (Crawl Worker pool)              *)
(*   backend/scoring/scoring_consumer.py  (Scoring Worker pool)            *)
(*   backend/crawler/helper/supabase_helper.py (Lead Store writes)         *)
(*   backend/api/main.py, backend/scoring/rescore_profile.py (producers)   *)
(* Each worker callback is cut into steps at its external calls (broker,   *)
(* Scraper, file system, Lead Store), so that workers interleave there.    *)
(***************************************************************************)
EXTENDS Integers, Sequences, FiniteSets, TLC

VARIABLES
    crawlQ,        \* crawl queue: messages ready for delivery
    scoreQ,        \* scoring queue: messages ready for delivery
    nextId,        \* number of CrawlJobs published so far (their ids)
    nextSid,       \* number of ScoreJobs published so far (their ids)
    ackedIds,      \* ids of the messages the broker has seen acked
    nackedIds,     \* ids of the messages the broker has seen nacked
    chanOpen,      \* per worker: its channel is usable
    pc,            \* per worker: position in worker_thread / callback
    cur,           \* per worker: the delivery being handled
    loc,           \* per worker: the callback's local variables
    trace,         \* per worker: what the callback did for cur (history)
    stats,         \* crawler_consumer.stats
    sstats,        \* scoring_consumer.stats
    files,         \* data/output/*.json   (crawler)
    scoreFiles,    \* data/scores/*_score.json (scoring)
    leads,         \* Supabase table leads_list
    templates,     \* Supabase table templates: id -> requirements
    requirements_id, \* the requirements_id main() hands to every crawl worker
    supabase,      \* crawl workers: SupabaseManager() was constructed
    faults,        \* number of errors the collaborators have raised so far
    edits,         \* number of changes made to the templates table so far
    main,          \* the main thread of a consumer process (KeyboardInterrupt, exit)
    ev,            \* an OptimizedScorer at work: its inputs, its breakdown, its results
    task,          \* SchedulerService.run_crawl_task: url_queue, stats, its workers
    sched,         \* the crawler_schedules table and the jobs of the APScheduler
    outreach       \* the outreach queue and the job its worker handled last

vars == <<crawlQ, scoreQ, nextId, nextSid, ackedIds, nackedIds, chanOpen, pc, cur, loc,
          trace, stats, sstats, files, scoreFiles, leads, templates,
          requirements_id, supabase, faults, edits, main, ev, task, sched, outreach>>

----------------------------------------------------------------------------
(* Bounds of the model *)

MaxCrawlJobs == 2
MaxScoreJobs == 2
MaxTs == 2
MaxFaults == 2
MaxEdits == 1

(* Small value sets *)

ScheduleIds == {"a", "b", "c"}
CrawlWorkers == {"c1", "c2"}
ScoreWorkers == {"s1", "s2"}
Workers == CrawlWorkers \cup ScoreWorkers

Urls == {"u1", "u2"}
ReqIds == {"r1", "r2"}

\* os.getenv('DEFAULT_REQUIREMENTS_ID', ...): what main() passes to the
\* workers when it runs in the background
DEFAULT_REQUIREMENTS_ID == "r1"

\* Python's None / '' / {} : every test on them in the code is a truth test
Empty == ""
Null == [null |-> TRUE]

Timestamps == 1..MaxTs

----------------------------------------------------------------------------
(* Strings that the scorer searches are sequences of characters *)

s_female == <<"f", "e", "m", "a", "l", "e">>
s_male == <<"m", "a", "l", "e">>
s_empty == <<>>

\* the texts of the profiles and requirement sets of the model
Text ==
    [space |-> <<" ">>,
     Bandung |-> <<"B", "a", "n", "d", "u", "n", "g">>,
     bandung |-> <<"b", "a", "n", "d", "u", "n", "g">>,
     Depak |-> <<"D", "e", "p", "a", "k">>,
     depok |-> <<"d", "e", "p", "o", "k">>,
     negotiation |-> <<"n", "e", "g", "o", "t", "i", "a", "t", "i", "o", "n">>,
     Negotiation |-> <<"N", "e", "g", "o", "t", "i", "a", "t", "i", "o", "n">>,
     collection |-> <<"c", "o", "l", "l", "e", "c", "t", "i", "o", "n">>,
     Collection_Officer |->
        <<"C", "o", "l", "l", "e", "c", "t", "i", "o", "n", " ",
          "O", "f", "f", "i", "c", "e", "r">>,
     BPR |-> <<"B", "P", "R">>,
     Diploma |-> <<"D", "i", "p", "l", "o", "m", "a">>,
     diploma |-> <<"d", "i", "p", "l", "o", "m", "a">>,
     bachelor |-> <<"b", "a", "c", "h", "e", "l", "o", "r">>,
     yr |-> <<"y", "r">>,
     mo |-> <<"m", "o">>,
     three_years_two_months |-> <<"3", " ", "y", "r", " ", "2", " ", "m", "o">>,
     one_year |-> <<"1", " ", "y", "r">>,
     Female |-> <<"F", "e", "m", "a", "l", "e">>,
     certificate |-> <<"c", "e", "r", "t", "i", "f", "i", "c", "a", "t", "e">>]

\* str.lower() on the letters the model's strings use
UpperToLower ==
    [B |-> "b", C |-> "c", D |-> "d", F |-> "f", N |-> "n", O |-> "o", P |-> "p",
     R |-> "r"]

lower(s) == [i \in DOMAIN s |-> IF s[i] \in DOMAIN UpperToLower
                                THEN UpperToLower[s[i]] ELSE s[i]]

\* str.strip()
RECURSIVE strip(_)
strip(s) ==
    IF s = <<>> THEN s
    ELSE IF Head(s) = " " THEN strip(Tail(s))
    ELSE IF s[Len(s)] = " " THEN strip(SubSeq(s, 1, Len(s) - 1))
    ELSE s

\* str.split(): the maximal runs of non-blank characters, in order
split(s) ==
    LET RECURSIVE split_from(_, _, _)
        split_from(i, word, acc) ==
            IF i > Len(s)
            THEN IF word = <<>> THEN acc ELSE Append(acc, word)
            ELSE IF s[i] = " "
                 THEN split_from(i + 1, <<>>,
                                 IF word = <<>> THEN acc ELSE Append(acc, word))
                 ELSE split_from(i + 1, Append(word, s[i]), acc)
    IN  split_from(1, <<>>, <<>>)

\* Python: a in b
IsSubstr(a, b) ==
    \E i \in 0..(Len(b) - Len(a)) :
        \A k \in 1..Len(a) : b[i + k] = a[k]

Max2(a, b) == IF a >= b THEN a ELSE b

\* max(...) of a set of numbers, 0 for the empty set
SetMax(S) == IF S = {} THEN 0 ELSE CHOOSE x \in S : \A y \in S : y <= x

\* re.search(r'(\d+)\s*yr', duration) and r'(\d+)\s*mo': int(group(1)) of the
\* leftmost match, 0 when nothing matches (years and months start at 0)
DigitValue ==
    [c \in {"0", "1", "2", "3", "4", "5", "6", "7", "8", "9"} |->
       CASE c = "0" -> 0 [] c = "1" -> 1 [] c = "2" -> 2 [] c = "3" -> 3
         [] c = "4" -> 4 [] c = "5" -> 5 [] c = "6" -> 6 [] c = "7" -> 7
         [] c = "8" -> 8 [] c = "9" -> 9]

re_search_int(unit, s) ==
    LET IsDigit(i) == i \in DOMAIN s /\ s[i] \in DOMAIN DigitValue
        IsBlank(i) == i \in DOMAIN s /\ s[i] = " "
        RECURSIVE run_end(_, _)
        run_end(i, blank) ==
            IF (IF blank THEN IsBlank(i + 1) ELSE IsDigit(i + 1))
            THEN run_end(i + 1, blank) ELSE i
        RECURSIVE int_of(_, _)
        int_of(i, j) ==
            IF j < i THEN 0 ELSE (int_of(i, j - 1) * 10) + DigitValue[s[j]]
        matches(i) ==
            /\ IsDigit(i)
            /\ LET k == run_end(run_end(i, FALSE), TRUE)
               IN  k + Len(unit) <= Len(s) /\ SubSeq(s, k + 1, k + Len(unit)) = unit
        starts == {i \in DOMAIN s : matches(i)}
    IN  IF starts = {} THEN 0
        ELSE LET i == CHOOSE x \in starts : \A y \in starts : x <= y
             IN  int_of(i, run_end(i, FALSE))

\* rapidfuzz.fuzz.ratio: 100 * 2 * LCS(a, b) / (len(a) + len(b)), the
\* normalised InDel similarity; kept as its integer part, which decides the
\* comparisons with 70 and 80 exactly
\* LCS(a, b) by rows of the table: prev and the new row hold the columns
\* 0..Len(b) at the indexes 1..Len(b) + 1
LCS(a, b) ==
    LET n == Len(b) + 1
        lcs_row(c, prev) ==
            SubSeq([j \in 1..n |->
                      SetMax({prev[j]}
                             \cup {prev[k] + 1 : k \in {x \in 1..(j - 1) : b[x] = c}})],
                   1, n)
        RECURSIVE lcs_rows(_, _)
        lcs_rows(i, prev) ==
            IF i > Len(a) THEN prev[n] ELSE lcs_rows(i + 1, lcs_row(a[i], prev))
    IN  lcs_rows(1, SubSeq([j \in 1..n |-> 0], 1, n))

fuzz_ratio(a, b) ==
    IF Len(a) + Len(b) = 0 THEN 100 ELSE (200 * LCS(a, b)) \div (Len(a) + Len(b))

\* rapidfuzz.fuzz.partial_ratio: the best fuzz.ratio of the shorter string
\* against a window of the longer one (windows of the shorter string's
\* length, and the shorter windows that hang over either end)
fuzz_partial_ratio(a, b) ==
    LET short == IF Len(a) <= Len(b) THEN a ELSE b
        long == IF Len(a) <= Len(b) THEN b ELSE a
        m == Len(short)
        n == Len(long)
        windows == {<<i, j>> \in (1..n) \X (1..n) :
                      /\ i <= j
                      /\ j - i + 1 <= m
                      /\ (j - i + 1 = m \/ i = 1 \/ j = n)}
    IN  IF m = 0 THEN (IF n = 0 THEN 100 ELSE 0)
        ELSE SetMax({fuzz_ratio(short, SubSeq(long, w[1], w[2])) : w \in windows})

----------------------------------------------------------------------------
(* Profiles the Scraper can return for a URL (the page may change between  *)
(* two scrapes) and the requirement sets a template can hold               *)

\* a profile that carries gender and age only: location '', no experiences,
\* no skills, no education, no estimated_age. estimated_age is the dict with
\* its keys 'value' and 'estimated_age' (0: the key is absent), or a plain
\* number (plain # 0)
Profile(url, g, a) ==
    [null |-> FALSE, profile_url |-> url, name |-> "n_" \o url, gender |-> g, age |-> a,
     estimated_age |-> [plain |-> 0, value |-> 0, estimated_age |-> 0],
     location |-> s_empty, experiences |-> <<>>,
     skills |-> <<>>, education |-> <<>>]

\* one entry of profile['experiences']; duration is the key _score_experience
\* reads, duration_text the key the profile of the end-to-end example carries
Experience(title, company, description, duration, duration_text) ==
    [title |-> title, company |-> company, description |-> description,
     duration |-> duration, duration_text |-> duration_text]

ScrapeResults(url) ==
    IF url = "u1" THEN {Profile(url, s_female, 28)} ELSE {Profile(url, s_male, 36)}

Profiles == UNION {ScrapeResults(u) : u \in Urls}

\* requirements.get(key, default) for every key OptimizedScorer reads, each
\* at its default (the key is absent), and the checklist of the new format
\* under 'requirements'; required_age_range {} is given = FALSE
NoAgeRange == [given |-> FALSE, min |-> 0, max |-> 100]

AgeRange(min_age, max_age) == [given |-> TRUE, min |-> min_age, max |-> max_age]

DefaultRequirements ==
    [null |-> FALSE, position |-> s_empty,
     required_gender |-> s_empty, required_location |-> s_empty,
     required_age_range |-> NoAgeRange, min_experience_years |-> 0,
     required_experience_keywords |-> <<>>, preferred_experience_keywords |-> <<>>,
     required_skills |-> <<>>, preferred_skills |-> <<>>,
     education_level |-> <<>>, requirements |-> <<>>]

ReqA == [DefaultRequirements EXCEPT !.required_gender = s_female,
                                    !.required_age_range = AgeRange(20, 35)]
ReqB == [DefaultRequirements EXCEPT !.required_gender = s_male,
                                    !.required_age_range = AgeRange(30, 45)]
NoReq == [DefaultRequirements EXCEPT !.null = TRUE]

TemplateValues == {NoReq, ReqA, ReqB}

----------------------------------------------------------------------------
(* OptimizedScorer. Scores are kept in whole points: where the code gives   *)
(* partial credit (a float), the model keeps the integer part of it.       *)

score_gender(requirements, profile) ==
    LET required_gender == lower(requirements.required_gender)
        profile_gender == lower(profile.gender)
    IN  IF required_gender # s_empty /\ profile_gender # s_empty
        THEN IF IsSubstr(required_gender, profile_gender)
                \/ IsSubstr(profile_gender, required_gender)
             THEN 15 ELSE 0
        ELSE 0

score_location(requirements, profile) ==
    LET required_location == lower(requirements.required_location)
        profile_location == lower(profile.location)
        ratio == fuzz_partial_ratio(required_location, profile_location)
    IN  IF required_location # s_empty /\ profile_location # s_empty
        THEN IF IsSubstr(required_location, profile_location)
                \/ IsSubstr(profile_location, required_location)
             THEN 15
             ELSE IF ratio >= 80 THEN (15 * ratio) \div 100 ELSE 0
        ELSE 0

\* profile.get('age'), else estimated.get('estimated_age') of the dict or the
\* plain estimated_age; 0 is "no age" (None, or an age that is falsy)
profile_age(profile) ==
    IF profile.age # 0 THEN profile.age
    ELSE IF profile.estimated_age.plain # 0 THEN profile.estimated_age.plain
    ELSE profile.estimated_age.estimated_age

age_details_mut(requirements, profile) ==
    LET age_range == requirements.required_age_range
        age == profile_age(profile)
        min_age == age_range.min
        max_age == age_range.max
        partial(diff) == [score |-> Max2(0, 10 - (diff * 2)), match |-> FALSE]
    IN  IF age_range.given /\ age # 0
        THEN IF min_age < age /\ age < max_age THEN [score |-> 10, match |-> TRUE]
             ELSE IF age <= min_age THEN partial(min_age - age)
             ELSE partial(age - max_age)
        ELSE [score |-> 0, match |-> FALSE]

\* lines 131-168: age_score and details['age']['match']
age_details(requirements, profile) ==
    LET age_range == requirements.required_age_range
        age == profile_age(profile)
        min_age == age_range.min
        max_age == age_range.max
        partial(diff) == [score |-> Max2(0, 10 - (diff * 2)), match |-> FALSE]
    IN  IF age_range.given /\ age # 0
        THEN IF min_age <= age /\ age <= max_age THEN [score |-> 10, match |-> TRUE]
             ELSE IF age < min_age THEN partial(min_age - age)
             ELSE partial(age - max_age)
        ELSE [score |-> 0, match |-> FALSE]

score_age(requirements, profile) == age_details(requirements, profile).score

score_demographics(requirements, profile) ==
    score_gender(requirements, profile)
    + score_location(requirements, profile)
    + score_age(requirements, profile)

\* _score_experience, lines 292-327: the keywords in the order they are
\* collected, before list(set(...))
common_words ==
    {<<"a", "n", "d">>, <<"o", "r">>, <<"t", "h", "e">>, <<"a">>, <<"a", "n">>,
     <<"i", "n">>, <<"o", "n">>, <<"a", "t">>, <<"t", "o">>, <<"f", "o", "r">>, <<"-">>}

collected_keywords(requirements) ==
    LET lower_all(strings) == [i \in DOMAIN strings |-> lower(strings[i])]
        skill_names(skills) == [i \in DOMAIN skills |-> lower(skills[i].name)]
        explicit == lower_all(requirements.required_experience_keywords)
                    \o lower_all(requirements.preferred_experience_keywords)
        fallback == skill_names(requirements.required_skills)
                    \o skill_names(requirements.preferred_skills)
                    \o split(lower(requirements.position))
        keep(kw) == kw \notin common_words /\ Len(kw) > 2
    IN  SelectSeq(IF explicit # <<>> THEN explicit ELSE fallback, keep)

\* list(set(keywords)): the distinct keywords in the order of the set's hash
\* table, which the hash seed of the process fixes (str hashes are salted
\* per process). Two of the possible orders: seed 0 and seed 1.
list_of_set(seed, keywords) ==
    LET RECURSIVE distinct(_, _)
        distinct(rest, acc) ==
            IF rest = <<>> THEN acc
            ELSE distinct(Tail(rest),
                          IF \E i \in DOMAIN acc : acc[i] = Head(rest)
                          THEN acc ELSE Append(acc, Head(rest)))
        first_seen == distinct(keywords, <<>>)
    IN  IF seed = 0 THEN first_seen
        ELSE [i \in DOMAIN first_seen |-> first_seen[Len(first_seen) + 1 - i]]

\* lines 329-332: no keyword left: [''] matches every experience
experience_keywords(requirements, seed) ==
    LET keywords == list_of_set(seed, collected_keywords(requirements))
    IN  IF keywords = <<>> THEN <<s_empty>> ELSE keywords

\* lines 343-366
is_relevant(exp, keywords) ==
    LET exp_text == lower(exp.title) \o Text.space \o lower(exp.company)
                    \o Text.space \o lower(exp.description)
        words == split(exp_text)
    IN  \E k \in DOMAIN keywords :
            \/ IsSubstr(keywords[k], exp_text)
            \/ \E i \in DOMAIN words : fuzz_ratio(keywords[k], words[i]) >= 80

\* lines 369-381
exp_months(exp) ==
    IF exp.duration # s_empty
    THEN (re_search_int(Text.yr, exp.duration) * 12)
         + re_search_int(Text.mo, exp.duration)
    ELSE 0

\* lines 335-391: the months of the relevant experiences
relevant_months(requirements, profile) ==
    LET keywords == experience_keywords(requirements, 0)
        RECURSIVE months_of(_)
        months_of(experiences) ==
            IF experiences = <<>> THEN 0
            ELSE (IF is_relevant(Head(experiences), keywords)
                  THEN exp_months(Head(experiences)) ELSE 0)
                 + months_of(Tail(experiences))
    IN  months_of(profile.experiences)

score_experience_mut(requirements, profile) ==
    LET min_years == requirements.min_experience_years
        months == relevant_months(requirements, profile)
    IN  IF months >= min_years * 12 THEN 25
        ELSE IF months >= (min_years - 1) * 12 THEN 25
        ELSE 0

\* lines 392-402, with relevant_years = relevant_months / 12
score_experience(requirements, profile) ==
    LET min_years == requirements.min_experience_years
        months == relevant_months(requirements, profile)
    IN  IF months >= min_years * 12 THEN 25
        ELSE IF months >= (min_years - 1) * 12 /\ months > 0
             THEN (months * 25) \div (min_years * 12)
             ELSE 0

\* _score_skills, lines 211-219
skills_list(profile_skills) ==
    LET named == SelectSeq(profile_skills, LAMBDA x : x # s_empty)
    IN  [i \in DOMAIN named |-> strip(lower(named[i]))]

\* lines 231-242: the best max(ratio, partial_ratio) that reaches 70, else 0
best_ratio(skill, profile_skills) ==
    LET list == skills_list(profile_skills)
        final_ratio(i) == Max2(fuzz_ratio(lower(skill), list[i]),
                               fuzz_partial_ratio(lower(skill), list[i]))
    IN  SetMax({final_ratio(i) : i \in {j \in DOMAIN list : final_ratio(j) >= 70}})

\* lines 221-249 (points = 18) and 251-276 (points = 7): the sum over the
\* matched skills of (weight / total_weight) * points * (best_ratio / 100)
\* what a score is when the computation raised ZeroDivisionError
ZeroDivisionError == -1000

\* lines 225-245 and 254-270: total_weight = sum(...) and, for a skill that a
\* profile skill matches, weight / total_weight
skills_raise(requirements, profile) ==
    LET RECURSIVE sum_weights(_)
        sum_weights(rest) ==
            IF rest = <<>> THEN 0 ELSE Head(rest).weight + sum_weights(Tail(rest))
        raises(skills) ==
            /\ skills # <<>>
            /\ sum_weights(skills) = 0
            /\ \E i \in DOMAIN skills : best_ratio(skills[i].name, profile.skills) > 0
    IN  raises(requirements.required_skills) \/ raises(requirements.preferred_skills)

skills_part(skills, profile_skills, points) ==
    LET RECURSIVE sum_weights(_)
        sum_weights(rest) ==
            IF rest = <<>> THEN 0 ELSE Head(rest).weight + sum_weights(Tail(rest))
        RECURSIVE weighted_ratios(_)
        weighted_ratios(rest) ==
            IF rest = <<>> THEN 0
            ELSE (Head(rest).weight * best_ratio(Head(rest).name, profile_skills))
                 + weighted_ratios(Tail(rest))
        weighted == weighted_ratios(skills)
    IN  IF skills = <<>> \/ weighted = 0 THEN 0
        ELSE (weighted * points) \div (sum_weights(skills) * 100)

required_matched(requirements, profile) ==
    Cardinality({i \in DOMAIN requirements.required_skills :
                   best_ratio(requirements.required_skills[i].name, profile.skills) > 0})

score_skills(requirements, profile) ==
    IF skills_raise(requirements, profile) THEN ZeroDivisionError
    ELSE skills_part(requirements.required_skills, profile.skills, 18)
         + skills_part(requirements.preferred_skills, profile.skills, 7)

\* _score_education, lines 427-433
levels ==
    {<<<<"h", "i", "g", "h", " ", "s", "c", "h", "o", "o", "l">>, 1>>,
     <<<<"s", "m", "a">>, 1>>, <<<<"s", "m", "k">>, 1>>,
     <<Text.diploma, 2>>, <<<<"a", "s", "s", "o", "c", "i", "a", "t", "e">>, 2>>,
     <<<<"d", "3">>, 2>>,
     <<Text.bachelor, 3>>, <<<<"s", "1">>, 3>>, <<<<"s", "a", "r", "j", "a", "n", "a">>, 3>>,
     <<<<"m", "a", "s", "t", "e", "r">>, 4>>, <<<<"s", "2">>, 4>>, <<<<"m", "b", "a">>, 4>>,
     <<<<"d", "o", "c", "t", "o", "r", "a", "l">>, 5>>, <<<<"p", "h", "d">>, 5>>,
     <<<<"s", "3">>, 5>>}

\* lines 435-450: the highest level whose name occurs in one of the strings
highest_level(strings) ==
    SetMax({l[2] : l \in {x \in levels :
                            \E i \in DOMAIN strings : IsSubstr(x[1], lower(strings[i]))}})

score_education(requirements, profile) ==
    LET required == requirements.education_level
        education == profile.education
        degrees == SelectSeq([i \in DOMAIN education |-> education[i].degree],
                             LAMBDA d : d # s_empty)
        highest == highest_level(degrees)
        required_level == highest_level(required)
    IN  IF required = <<>> THEN 10
        ELSE IF education = <<>> THEN 0
        ELSE IF highest >= required_level THEN 10
        ELSE IF highest > 0 THEN (highest * 10) \div required_level
        ELSE 0

\* score(), lines 177-196: total
score(requirements, profile) ==
    IF skills_raise(requirements, profile) THEN ZeroDivisionError
    ELSE score_demographics(requirements, profile)
         + score_experience(requirements, profile)
         + score_skills(requirements, profile)
         + score_education(requirements, profile)

\* percentage = (total / 100) * 100, line 197
percentage(total) == (total * 100) \div 100

\* self.breakdown as score() leaves it: the fields of the four entries that
\* the sub-scorers write (lines 170-173, 280-286, 404-412, 420-459)
breakdown_of(requirements, profile, seed) ==
    [demographics |->
        [score |-> score_demographics(requirements, profile),
         gender |-> score_gender(requirements, profile),
         location |-> score_location(requirements, profile),
         age |-> score_age(requirements, profile),
         age_match |-> age_details(requirements, profile).match],
     experience |->
        [score |-> score_experience(requirements, profile),
         required_years |-> requirements.min_experience_years,
         total_experiences |-> Len(profile.experiences),
         meets_requirement |-> relevant_months(requirements, profile)
                               >= requirements.min_experience_years * 12,
         keywords_used |->
            LET keywords == experience_keywords(requirements, seed)
            IN  SubSeq(keywords, 1, IF Len(keywords) < 10 THEN Len(keywords) ELSE 10)],
     skills |->
        [score |-> score_skills(requirements, profile),
         required_matched |-> required_matched(requirements, profile),
         required_total |-> Len(requirements.required_skills)],
     education |-> [score |-> score_education(requirements, profile)]]

----------------------------------------------------------------------------
(* Messages *)

NoMsg == [id |-> <<"none", 0>>]

\* no scorer is at work; run_crawl_task is not running
NoEval == [stage |-> "none"]
NoTask == [stage |-> "none"]

\* crawler_schedules is empty (status "none": no row), the scheduler is not
\* started and holds no job; response is the answer to the last request
\* (history)
\* the outreach queue is empty and the outreach worker has handled no job
NoOutreach ==
    [queue |-> <<>>, sent |-> 0,
     last |-> [status |-> "none", dry_run |-> "absent", clicked |-> FALSE,
               resolved |-> "none", profile_url |-> Empty, before |-> {}]]

NoSchedules ==
    [running |-> FALSE,
     rows |-> [id \in ScheduleIds |-> [status |-> "none", cron_ok |-> TRUE]],
     jobs |-> [id \in ScheduleIds |-> "none"],
     response |-> [op |-> "none", code |-> 0]]

\* json.dumps(message) of main.publish_to_crawler_queue; valid = FALSE is a
\* body that json.loads rejects
CrawlMsg(id, valid, url, template_id, rid) ==
    [id |-> id, valid |-> valid, url |-> url, template_id |-> template_id,
     requirements_id |-> rid]

\* the message of send_to_scoring_queue / rescore_profile.publish_to_scoring_queue;
\* src is history: the id of the CrawlJob it was published for (0: a re-score)
ScoreMsg(id, valid, profile_data, template_id, rid, src) ==
    [id |-> id, valid |-> valid, profile_data |-> profile_data,
     template_id |-> template_id, requirements_id |-> rid,
     profile_url |-> IF profile_data.null THEN Empty ELSE profile_data.profile_url,
     src |-> src]

NewTrace ==
    [acks |-> 0, nacks |-> 0, failed |-> 0, completed |-> 0, skipped |-> 0,
     scraper |-> 0, published |-> 0, wrote |-> 0, lead |-> 0, evaluated |-> 0,
     expected |-> -1, dup |-> FALSE, unresolved |-> FALSE, infra |-> FALSE,
     errs |-> 0, escaped |-> FALSE]

NewLoc ==
    [profile_data |-> Null, exists |-> FALSE, lead_exists |-> FALSE,
     lead_has_profile |-> FALSE, raised |-> FALSE, scrape_failed |-> FALSE,
     req_id |-> Empty, total_score |-> 0, success |-> FALSE]

\* the outcomes a call to a collaborator (Scraper, broker, Lead Store) can
\* have: TRUE is success, FALSE an error, while errors are left to spend
Outcomes == IF faults < MaxFaults THEN BOOLEAN ELSE {TRUE}
Charged(ok) == IF ok THEN faults ELSE faults + 1

Inc(rec, field) == [rec EXCEPT ![field] = @ + 1]
Dec(rec, field) == [rec EXCEPT ![field] = @ - 1]

----------------------------------------------------------------------------
(* Broker operations on a worker's channel *)

Settled(id) == id \in ackedIds \cup nackedIds

\* ch.basic_ack(delivery_tag): the broker records the ack
BrokerAcked(ids, id) == ids \cup {id}

\* ch.basic_nack(delivery_tag, requeue): with requeue the message goes back
\* to the head of its queue, without it the message is dropped
BrokerRequeued(q, msg, requeue) == IF requeue THEN <<msg>> \o q ELSE q

----------------------------------------------------------------------------
(* crawler_consumer.py: the output directory *)

\* hashlib.md5(profile_url.encode()).hexdigest()[:8]: 32 bits of the digest,
\* which many URLs share; u3 is a URL whose digest starts as that of u1 does
get_profile_hash(profile_url) ==
    CASE profile_url = "u1" -> "h1"
      [] profile_url = "u2" -> "h2"
      [] profile_url = "u3" -> "h1"
      [] OTHER -> "h0"

\* a file of data/output: its name <<name_slug, timestamp, url_hash>> and content
OutFile(profile_data, ts) ==
    [path |-> <<profile_data.name, ts, get_profile_hash(profile_data.profile_url)>>,
     data |-> profile_data]

\* glob of *_{hash}.json, then a scan of every file for the same profile_url
check_if_already_crawled(profile_url, dir) ==
    \/ \E f \in dir : f.path[3] = get_profile_hash(profile_url)
    \/ \E f \in dir : f.data.profile_url = profile_url

\* open(filepath, 'w'): a file of the same name is replaced
WriteFile(dir, f) == {g \in dir : g.path # f.path} \cup {f}

\* datetime.now().strftime('%Y%m%d_%H%M%S') never runs backwards: a write
\* falls in the second of the latest file of the directory or in the next one
Latest(dir) == IF dir = {} THEN 1 ELSE CHOOSE t \in Timestamps :
                   (\E f \in dir : f.path[2] = t) /\ (\A f \in dir : f.path[2] <= t)
Now(dir) == IF dir = {} THEN {1} ELSE {Latest(dir), Latest(dir) + 1} \cap Timestamps

----------------------------------------------------------------------------
(* supabase_helper.py / scoring_consumer.py: rows of leads_list *)

LeadIds == {r.id : r \in leads}
NewLeadId == Cardinality(leads) + 1

LeadsOf(profile_url) == {r \in leads : r.profile_url = profile_url}

----------------------------------------------------------------------------
(* crawler_consumer.py: worker_thread and its callback *)

\* idle consumers of a queue are interchangeable: the broker serves the first
Rank(w) == IF w \in {"c1", "s1"} THEN 1 ELSE 2
FirstIdle(w, pool) ==
    \A v \in pool : (pc[v] = "idle" /\ chanOpen[v]) => Rank(w) <= Rank(v)

\* a consumer that takes deliveries while it still holds one
CanReceive_mut(w, pool) ==
    /\ chanOpen[w]
    /\ pc[w] \notin {"done", "stopped"}

\* basic_qos(prefetch_count=1) and auto_ack=False: the broker sends a consumer
\* its next message only once the consumer holds no unsettled delivery
CanReceive(w, pool) ==
    /\ pc[w] = "idle"
    /\ chanOpen[w]
    /\ FirstIdle(w, pool)

\* The broker hands the head of the crawl queue to an idle consumer
\* (basic_consume with prefetch_count = 1) and the callback runs lines 277-293:
\* json.loads, the url test (ack and return), the processing counter and
\* LinkedInCrawler(), which may raise
CDeliver(w) ==
    /\ CanReceive(w, CrawlWorkers)
    /\ crawlQ # <<>>
    /\ LET msg == Head(crawlQ) IN
         /\ cur' = [cur EXCEPT ![w] = msg]
         /\ crawlQ' = Tail(crawlQ)
         /\ loc' = [loc EXCEPT ![w] = NewLoc]
         /\ IF ~msg.valid
            THEN /\ pc' = [pc EXCEPT ![w] = "fatal"]
                 /\ trace' = [trace EXCEPT ![w] = NewTrace]
                 /\ UNCHANGED <<ackedIds, stats, faults>>
            ELSE IF msg.url = Empty
            THEN /\ ackedIds' = BrokerAcked(ackedIds, msg.id)
                 /\ trace' = [trace EXCEPT ![w] = Inc(NewTrace, "acks")]
                 /\ pc' = [pc EXCEPT ![w] = "done"]
                 /\ UNCHANGED <<stats, faults>>
            ELSE /\ stats' = Inc(stats, "processing")
                 /\ \E constructed \in Outcomes :
                      /\ pc' = [pc EXCEPT ![w] = IF constructed THEN "scrape" ELSE "fatal"]
                      /\ faults' = Charged(constructed)
                      /\ trace' = [trace EXCEPT ![w] =
                                     [NewTrace EXCEPT
                                        !.dup = check_if_already_crawled(msg.url, files),
                                        !.errs = IF constructed THEN 0 ELSE 1]]
                 /\ UNCHANGED ackedIds
    /\ UNCHANGED <<main, ev, task, sched, outreach, scoreQ, nextId, nextSid, nackedIds, chanOpen, sstats,
                   files, scoreFiles, leads, templates, requirements_id, supabase, edits>>

\* lines 297-303: crawler.login() and crawler.get_profile(url), either may
\* raise; then save_profile_data up to its duplicate check (lines 56-63)
CScrape(w) ==
    /\ pc[w] = "scrape"
    /\ \/ \E profile_data \in ScrapeResults(cur[w].url) :
            /\ trace' = [trace EXCEPT ![w] = Inc(@, "scraper")]
            /\ loc' = [loc EXCEPT ![w].profile_data = profile_data,
                                  ![w].exists =
                                     check_if_already_crawled(profile_data.profile_url, files)]
            /\ pc' = [pc EXCEPT ![w] = "write"]
            /\ UNCHANGED faults
       \/ /\ FALSE \in Outcomes
          /\ faults' = Charged(FALSE)
          /\ trace' = [trace EXCEPT ![w] = Inc(Inc(@, "scraper"), "errs")]
          /\ loc' = [loc EXCEPT ![w].scrape_failed = TRUE]
          /\ pc' = [pc EXCEPT ![w] = "except"]
    /\ UNCHANGED <<main, ev, task, sched, outreach, crawlQ, scoreQ, nextId, nextSid, ackedIds, nackedIds, chanOpen, cur,
                   stats, sstats, files, scoreFiles, leads, templates,
                   requirements_id, supabase, edits>>

\* save_profile_data, lines 65-81: the file write, skipped for a duplicate
CSaveWrite(w) ==
    /\ pc[w] = "write"
    /\ IF loc[w].exists
       THEN UNCHANGED <<files, trace>>
       ELSE \E ts \in Now(files) :
              /\ files' = WriteFile(files, OutFile(loc[w].profile_data, ts))
              /\ trace' = [trace EXCEPT ![w] = Inc(@, "wrote")]
    /\ pc' = [pc EXCEPT ![w] = "lead"]
    /\ UNCHANGED <<main, ev, task, sched, outreach, crawlQ, scoreQ, nextId, nextSid, ackedIds, nackedIds, chanOpen, cur,
                   loc, stats, sstats, scoreFiles, leads, templates,
                   requirements_id, supabase, faults, edits>>

\* SupabaseManager.save_lead, lines 37-43: select the rows of profile_url.
\* An error raised by the select or by the write that follows is caught at
\* line 78: nothing is written, save_lead returns False and line 319 counts it
CLeadSelect(w) ==
    /\ pc[w] = "lead"
    /\ IF ~supabase
       THEN /\ pc' = [pc EXCEPT ![w] = "publish"]
            /\ UNCHANGED <<loc, stats, faults, trace>>
       ELSE \E ok \in Outcomes :
              /\ faults' = Charged(ok)
              /\ IF ok
                 THEN /\ loc' = [loc EXCEPT ![w].lead_exists = LeadsOf(cur[w].url) # {}]
                      /\ pc' = [pc EXCEPT ![w] = "lead_write"]
                      /\ UNCHANGED <<stats, trace>>
                 ELSE /\ stats' = Inc(stats, "supabase_failed")
                      /\ trace' = [trace EXCEPT ![w] =
                                     [Inc(@, "errs") EXCEPT !.infra = TRUE]]
                      /\ pc' = [pc EXCEPT ![w] = "publish"]
                      /\ UNCHANGED loc
    /\ UNCHANGED <<main, ev, task, sched, outreach, crawlQ, scoreQ, nextId, nextSid, ackedIds, nackedIds, chanOpen, cur,
                   sstats, files, scoreFiles, leads, templates,
                   requirements_id, supabase, edits>>

\* the row save_lead inserts (lines 59-65)
NewLead(profile_url, name, profile_data, connection_status) ==
    [id |-> NewLeadId, profile_url |-> profile_url, name |-> name,
     profile_data |-> profile_data, connection_status |-> connection_status,
     score |-> -1]

\* the update of save_lead (lines 45-54) on every row of profile_url
SaveLeadUpdate(profile_url, name, profile_data, connection_status) ==
    {IF r.profile_url = profile_url
     THEN [r EXCEPT !.name = name, !.profile_data = profile_data,
                    !.connection_status = connection_status]
     ELSE r : r \in leads}

\* SupabaseManager.save_lead, lines 43-76, and the counter of line 315
CLeadWrite(w) ==
    /\ pc[w] = "lead_write"
    /\ w \in CrawlWorkers
    /\ leads' = IF loc[w].lead_exists
                THEN SaveLeadUpdate(cur[w].url, loc[w].profile_data.name,
                                    loc[w].profile_data, "scraped")
                ELSE leads \cup {NewLead(cur[w].url, loc[w].profile_data.name,
                                         loc[w].profile_data, "scraped")}
    /\ stats' = Inc(stats, "saved_to_supabase")
    /\ trace' = [trace EXCEPT ![w] = Inc(@, "lead")]
    /\ pc' = [pc EXCEPT ![w] = "publish"]
    /\ UNCHANGED <<main, ev, task, sched, outreach, crawlQ, scoreQ, nextId, nextSid, ackedIds, nackedIds, chanOpen, cur,
                   loc, sstats, files, scoreFiles, templates, requirements_id,
                   supabase, faults, edits>>

\* the message send_to_scoring_queue builds (lines 139-143) for the worker's
\* delivery: rid is the requirements_id argument the callback passes
ScoreJobOf(w, rid) ==
    ScoreMsg(<<"score", nextSid + 1>>, TRUE, loc[w].profile_data, Empty, rid, cur[w].id)

\* lines 322-334: send_to_scoring_queue(profile_data, requirements_id, mq_config)
\* with the worker_thread argument requirements_id; a failed connect or publish
\* returns False; completed is counted either way
CPublish(w) ==
    /\ pc[w] = "publish"
    /\ \E sent \in Outcomes :
         /\ faults' = Charged(sent)
         /\ IF sent
            THEN /\ scoreQ' = Append(scoreQ, ScoreJobOf(w, requirements_id))
                 /\ nextSid' = nextSid + 1
                 /\ stats' = Inc(Inc(stats, "sent_to_scoring"), "completed")
                 /\ trace' = [trace EXCEPT ![w] = Inc(Inc(@, "published"), "completed")]
            ELSE /\ stats' = Inc(stats, "completed")
                 /\ trace' = [trace EXCEPT ![w] =
                                [Inc(Inc(@, "completed"), "errs") EXCEPT !.infra = TRUE]]
                 /\ UNCHANGED <<scoreQ, nextSid>>
    /\ pc' = [pc EXCEPT ![w] = "ack"]
    /\ UNCHANGED <<main, ev, task, sched, outreach, crawlQ, nextId, ackedIds, nackedIds, chanOpen, cur, loc, sstats,
                   files, scoreFiles, leads, templates, requirements_id, supabase, edits>>

\* the ack issued before the ScoreJob is published
CAck_mut(w) ==
    /\ pc[w] = "ack"
    /\ w \in CrawlWorkers
    /\ chanOpen[w]
    /\ ackedIds' = BrokerAcked(ackedIds, cur[w].id)
    /\ trace' = [trace EXCEPT ![w] = Inc(@, "acks")]
    /\ pc' = [pc EXCEPT ![w] = IF Settled(cur[w].id) THEN "finally" ELSE "publish"]
    /\ UNCHANGED <<main, ev, task, sched, outreach, crawlQ, scoreQ, nextId, nextSid, nackedIds, chanOpen, cur, loc, stats,
                   sstats, files, scoreFiles, leads, templates, requirements_id,
                   supabase, faults, edits>>

\* line 337: ack_message(ch, method.delivery_tag); an error goes to line 339
CAck(w) ==
    /\ pc[w] = "ack"
    /\ w \in CrawlWorkers
    /\ IF chanOpen[w]
       THEN /\ ackedIds' = BrokerAcked(ackedIds, cur[w].id)
            /\ trace' = [trace EXCEPT ![w] = Inc(@, "acks")]
            /\ pc' = [pc EXCEPT ![w] = "finally"]
       ELSE /\ pc' = [pc EXCEPT ![w] = "except"]
            /\ UNCHANGED <<ackedIds, trace>>
    /\ UNCHANGED <<main, ev, task, sched, outreach, crawlQ, scoreQ, nextId, nextSid, nackedIds, chanOpen, cur, loc, stats,
                   sstats, files, scoreFiles, leads, templates, requirements_id,
                   supabase, faults, edits>>

except_requeue_mut == TRUE

\* the requeue argument of the nack at line 349
except_requeue == FALSE

\* a worker that stops consuming after a failed job
CExcept_mut(w) ==
    /\ pc[w] = "except"
    /\ stats' = Dec(Inc(stats, "failed"), "processing")
    /\ nackedIds' = nackedIds \cup {cur[w].id}
    /\ trace' = [trace EXCEPT ![w] = Inc(Inc(@, "failed"), "nacks")]
    /\ pc' = [pc EXCEPT ![w] = "stopped"]
    /\ UNCHANGED <<main, ev, task, sched, outreach, crawlQ, scoreQ, nextId, nextSid, ackedIds, chanOpen, cur,
                   loc, sstats, files, scoreFiles, leads, templates, requirements_id,
                   supabase, faults, edits>>

\* lines 339-349: failed is counted, then nack_message(..., requeue=False)
CExcept(w) ==
    /\ pc[w] = "except"
    /\ stats' = Inc(stats, "failed")
    /\ IF chanOpen[w]
       THEN /\ nackedIds' = nackedIds \cup {cur[w].id}
            /\ crawlQ' = BrokerRequeued(crawlQ, cur[w], except_requeue)
            /\ trace' = [trace EXCEPT ![w] = Inc(Inc(@, "failed"), "nacks")]
            /\ UNCHANGED loc
       ELSE /\ loc' = [loc EXCEPT ![w].raised = TRUE]
            /\ trace' = [trace EXCEPT ![w] = Inc(@, "failed")]
            /\ UNCHANGED <<nackedIds, crawlQ>>
    /\ pc' = [pc EXCEPT ![w] = "finally"]
    /\ UNCHANGED <<main, ev, task, sched, outreach, scoreQ, nextId, nextSid, ackedIds, chanOpen, cur, sstats, files,
                   scoreFiles, leads, templates, requirements_id, supabase, faults, edits>>

\* lines 351-357: crawler.close(), which may raise, then processing -= 1
CFinally(w) ==
    /\ pc[w] = "finally"
    /\ w \in CrawlWorkers
    /\ \E closed \in Outcomes :
         /\ faults' = Charged(closed)
         /\ IF closed
            THEN /\ stats' = Dec(stats, "processing")
                 /\ pc' = [pc EXCEPT ![w] = IF loc[w].raised THEN "fatal" ELSE "done"]
                 /\ UNCHANGED trace
            ELSE /\ pc' = [pc EXCEPT ![w] = "fatal"]
                 /\ trace' = [trace EXCEPT ![w] = Inc(@, "errs")]
                 /\ UNCHANGED stats
    /\ UNCHANGED <<main, ev, task, sched, outreach, crawlQ, scoreQ, nextId, nextSid, ackedIds, nackedIds, chanOpen, cur,
                   loc, sstats, files, scoreFiles, leads, templates,
                   requirements_id, supabase, edits>>

\* lines 359-361: the outer handler nacks, whatever was done before; an error
\* of this nack leaves the callback, start_consuming ends (line 374) and the
\* broker takes back the unsettled delivery
CFatal(w) ==
    /\ pc[w] = "fatal"
    /\ IF chanOpen[w]
       THEN /\ nackedIds' = nackedIds \cup {cur[w].id}
            /\ trace' = [trace EXCEPT ![w] = Inc(@, "nacks")]
            /\ pc' = [pc EXCEPT ![w] = "done"]
            /\ UNCHANGED crawlQ
       ELSE /\ trace' = [trace EXCEPT ![w].escaped = TRUE]
            /\ pc' = [pc EXCEPT ![w] = "stopped"]
            /\ crawlQ' = BrokerRequeued(crawlQ, cur[w], ~Settled(cur[w].id))
            /\ UNCHANGED nackedIds
    /\ UNCHANGED <<main, ev, task, sched, outreach, scoreQ, nextId, nextSid, ackedIds, chanOpen, cur, loc, stats, sstats,
                   files, scoreFiles, leads, templates, requirements_id, supabase, faults, edits>>

\* the callback returns to start_consuming
Return(w) ==
    /\ pc[w] = "done"
    /\ pc' = [pc EXCEPT ![w] = "idle"]
    /\ cur' = [cur EXCEPT ![w] = NoMsg]
    /\ loc' = [loc EXCEPT ![w] = NewLoc]
    /\ trace' = [trace EXCEPT ![w] = NewTrace]
    /\ UNCHANGED <<main, ev, task, sched, outreach, crawlQ, scoreQ, nextId, nextSid, ackedIds, nackedIds, chanOpen, stats, sstats, files, scoreFiles, leads, templates,
                   requirements_id, supabase, faults, edits>>

----------------------------------------------------------------------------
(* Producers *)

\* bodies a producer can put on the crawl queue: the message of
\* main.publish_to_crawler_queue, one without url, one that is not JSON
CrawlBodies(id) ==
    {CrawlMsg(id, TRUE, "u1", Empty, r) : r \in ReqIds}
    \cup {CrawlMsg(id, TRUE, "u2", Empty, "r1"),
          CrawlMsg(id, TRUE, Empty, Empty, "r1"),
          CrawlMsg(id, FALSE, Empty, Empty, Empty)}

\* the queues a run can start from: main() publishes every URL before it
\* starts the workers (lines 452-495); ids are the positions in the queue
RECURSIVE CrawlQueues(_)
CrawlQueues(n) ==
    IF n = 0 THEN {<<>>}
    ELSE LET shorter == CrawlQueues(n - 1) IN
         shorter \cup {Append(q, m) : q \in {x \in shorter : Len(x) = n - 1},
                                      m \in CrawlBodies(<<"crawl", n>>)}

----------------------------------------------------------------------------
(* scoring_consumer.py: the score directory *)

\* a file of data/scores: its name
\* <<name_slug, requirements_id, timestamp, url_hash>> and its content
ScoreFile(profile_data, score_result, rid, ts) ==
    [path |-> <<profile_data.name, rid, ts, get_profile_hash(profile_data.profile_url)>>,
     profile |-> profile_data, requirements_id |-> rid, score |-> score_result]

\* glob of *_{requirements_id}_*_{hash}_score.json, then a scan of every
\* score file for the same profile_url and requirements_id
check_if_already_scored(profile_url, rid, dir) ==
    \/ \E f \in dir : f.path[2] = rid /\ f.path[4] = get_profile_hash(profile_url)
    \/ \E f \in dir : f.profile.profile_url = profile_url /\ f.requirements_id = rid

LatestScore(dir) == IF dir = {} THEN 1 ELSE CHOOSE t \in Timestamps :
                        (\E f \in dir : f.path[3] = t) /\ (\A f \in dir : f.path[3] <= t)
NowScore(dir) ==
    IF dir = {} THEN {1} ELSE {LatestScore(dir), LatestScore(dir) + 1} \cap Timestamps

\* load_requirements: the requirements column of the template, None when the
\* template is missing or its requirements are empty
load_requirements(template_id) ==
    IF template_id \in DOMAIN templates THEN templates[template_id] ELSE NoReq

\* process_message, line 686: template_id or requirements_id
ReqIdOf(message_data) ==
    IF message_data.template_id # Empty THEN message_data.template_id
    ELSE message_data.requirements_id

----------------------------------------------------------------------------
(* scoring_consumer.py: worker_thread, its callback and process_message *)

\* The broker hands the head of the scoring queue to an idle consumer and the
\* callback runs: processing += 1, json.loads (an error goes to line 833),
\* then process_message up to its duplicate check (lines 676-703)
SDeliver(w) ==
    /\ CanReceive(w, ScoreWorkers)
    /\ scoreQ # <<>>
    /\ LET msg == Head(scoreQ)
           req_id == ReqIdOf(msg)
           seen == check_if_already_scored(msg.profile_url, req_id, scoreFiles)
       IN
         /\ cur' = [cur EXCEPT ![w] = msg]
         /\ scoreQ' = Tail(scoreQ)
         /\ IF ~msg.valid
            THEN /\ loc' = [loc EXCEPT ![w] = [NewLoc EXCEPT !.raised = TRUE]]
                 /\ trace' = [trace EXCEPT ![w] = NewTrace]
                 /\ sstats' = Inc(sstats, "processing")
                 /\ pc' = [pc EXCEPT ![w] = "resolve"]
            ELSE IF msg.profile_data.null \/ req_id = Empty
            THEN /\ loc' = [loc EXCEPT ![w] = NewLoc]
                 /\ trace' = [trace EXCEPT ![w] = NewTrace]
                 /\ sstats' = Inc(sstats, "processing")
                 /\ pc' = [pc EXCEPT ![w] = "resolve"]
            ELSE IF msg.profile_url # Empty /\ seen
            THEN /\ loc' = [loc EXCEPT ![w] =
                              [NewLoc EXCEPT !.profile_data = msg.profile_data,
                                             !.req_id = req_id, !.success = TRUE]]
                 /\ trace' = [trace EXCEPT ![w] =
                                [Inc(NewTrace, "skipped") EXCEPT
                                   !.dup = TRUE,
                                   !.unresolved = load_requirements(req_id).null,
                                   !.expected =
                                      IF load_requirements(req_id).null THEN -1
                                      ELSE score(load_requirements(req_id),
                                                 msg.profile_data)]]
                 /\ sstats' = Inc(Inc(sstats, "processing"), "skipped")
                 /\ pc' = [pc EXCEPT ![w] = "resolve"]
            ELSE /\ loc' = [loc EXCEPT ![w] =
                              [NewLoc EXCEPT !.profile_data = msg.profile_data,
                                             !.req_id = req_id]]
                 /\ trace' = [trace EXCEPT ![w] = NewTrace]
                 /\ sstats' = Inc(sstats, "processing")
                 /\ pc' = [pc EXCEPT ![w] = "load"]
    /\ UNCHANGED <<main, ev, task, sched, outreach, crawlQ, nextId, nextSid, ackedIds, nackedIds, chanOpen, stats,
                   files, scoreFiles, leads, templates, requirements_id, supabase,
                   faults, edits>>

\* lines 706-749: load_requirements (None on an error of the store, on a
\* missing template, on empty requirements), OptimizedScorer(...).score(...)
\* (an exception of it goes to line 770: return False),
\* and save_score_result up to its duplicate check (lines 533-541)
SLoad(w) ==
    /\ pc[w] = "load"
    /\ \E ok \in Outcomes :
         /\ faults' = Charged(ok)
         /\ LET requirements == IF ok THEN load_requirements(loc[w].req_id) ELSE NoReq
                profile_data == loc[w].profile_data
            IN IF requirements.null
               THEN /\ loc' = [loc EXCEPT ![w].success = FALSE]
                    /\ pc' = [pc EXCEPT ![w] = "resolve"]
                    /\ trace' = [trace EXCEPT ![w].unresolved = TRUE,
                                              ![w].infra = ~ok]
               ELSE IF skills_raise(requirements, profile_data)
               THEN /\ loc' = [loc EXCEPT ![w].success = FALSE]
                    /\ pc' = [pc EXCEPT ![w] = "resolve"]
                    /\ trace' = [trace EXCEPT ![w] = Inc(@, "evaluated")]
               ELSE /\ loc' = [loc EXCEPT
                                 ![w].total_score = score(requirements, profile_data),
                                 ![w].exists =
                                     /\ profile_data.profile_url # Empty
                                     /\ check_if_already_scored(profile_data.profile_url,
                                                                loc[w].req_id, scoreFiles)]
                    /\ trace' = [trace EXCEPT ![w] =
                                   [Inc(@, "evaluated") EXCEPT !.expected =
                                       score(requirements, profile_data)]]
                    /\ pc' = [pc EXCEPT ![w] = "swrite"]
    /\ UNCHANGED <<main, ev, task, sched, outreach, crawlQ, scoreQ, nextId, nextSid, ackedIds, nackedIds, chanOpen,
                   cur, stats, sstats, files, scoreFiles, leads, templates,
                   requirements_id, supabase, edits>>

\* save_score_result, lines 543-572: the file write, skipped for a duplicate
SSaveWrite(w) ==
    /\ pc[w] = "swrite"
    /\ IF loc[w].exists
       THEN UNCHANGED <<scoreFiles, trace>>
       ELSE \E ts \in NowScore(scoreFiles) :
              /\ scoreFiles' = WriteFile(scoreFiles,
                                  ScoreFile(loc[w].profile_data, loc[w].total_score,
                                            loc[w].req_id, ts))
              /\ trace' = [trace EXCEPT ![w] = Inc(@, "wrote")]
    /\ pc' = [pc EXCEPT ![w] = IF loc[w].profile_data.profile_url # Empty
                               THEN "slead" ELSE "resolve"]
    /\ loc' = [loc EXCEPT ![w].success = TRUE]
    /\ UNCHANGED <<main, ev, task, sched, outreach, crawlQ, scoreQ, nextId, nextSid, ackedIds, nackedIds, chanOpen,
                   cur, stats, sstats, files, leads, templates, requirements_id,
                   supabase, faults, edits>>

\* update_supabase_score, line 584: select the rows of profile_url. An error
\* raised by the select or by the write that follows is caught at line 649:
\* nothing is written, False is returned and line 761 counts it
SLeadSelect(w) ==
    /\ pc[w] = "slead"
    /\ \E ok \in Outcomes :
         /\ faults' = Charged(ok)
         /\ IF ok
            THEN /\ loc' = [loc EXCEPT
                     ![w].lead_exists = LeadsOf(cur[w].profile_data.profile_url) # {},
                     ![w].lead_has_profile =
                         \E r \in LeadsOf(cur[w].profile_data.profile_url) :
                             /\ \A q \in LeadsOf(cur[w].profile_data.profile_url) :
                                    r.id <= q.id
                             /\ ~r.profile_data.null]
                 /\ pc' = [pc EXCEPT ![w] = "slead_write"]
                 /\ UNCHANGED <<sstats, trace>>
            ELSE /\ sstats' = Inc(sstats, "supabase_failed")
                 /\ trace' = [trace EXCEPT ![w].infra = TRUE]
                 /\ pc' = [pc EXCEPT ![w] = "resolve"]
                 /\ UNCHANGED loc
    /\ UNCHANGED <<main, ev, task, sched, outreach, crawlQ, scoreQ, nextId, nextSid, ackedIds, nackedIds, chanOpen,
                   cur, stats, files, scoreFiles, leads, templates,
                   requirements_id, supabase, edits>>

\* the update of update_supabase_score (lines 587-615) on every row of
\* profile_url: score always, name when the profile has one, profile_data
\* only when the selected row had none
ScoreLeadUpdate(profile_url, total_score, profile_data, has_profile) ==
    {IF r.profile_url = profile_url
     THEN [r EXCEPT !.score = total_score,
                    !.name = IF profile_data.name # Empty THEN profile_data.name ELSE @,
                    !.profile_data = IF has_profile THEN @ ELSE profile_data]
     ELSE r : r \in leads}

\* the row update_supabase_score inserts (lines 628-640)
ScoredLead(profile_url, total_score, profile_data) ==
    [id |-> NewLeadId, profile_url |-> profile_url, name |-> profile_data.name,
     profile_data |-> profile_data, connection_status |-> "scored",
     score |-> total_score]

\* update_supabase_score, lines 612-647, and the counter of line 758
SLeadWrite(w) ==
    /\ pc[w] = "slead_write"
    /\ LET profile_data == loc[w].profile_data IN
         leads' = IF loc[w].lead_exists
                  THEN ScoreLeadUpdate(profile_data.profile_url, loc[w].total_score,
                                       profile_data, loc[w].lead_has_profile)
                  ELSE leads \cup {ScoredLead(profile_data.profile_url,
                                              loc[w].total_score, profile_data)}
    /\ sstats' = Inc(sstats, "supabase_updated")
    /\ trace' = [trace EXCEPT ![w] = Inc(@, "lead")]
    /\ pc' = [pc EXCEPT ![w] = "resolve"]
    /\ UNCHANGED <<main, ev, task, sched, outreach, crawlQ, scoreQ, nextId, nextSid, ackedIds, nackedIds, chanOpen,
                   cur, loc, stats, files, scoreFiles, templates, requirements_id,
                   supabase, faults, edits>>

scoring_requeue_mut == TRUE

\* the requeue argument of the nacks at lines 828 and 837
scoring_requeue == FALSE

\* callback, lines 820-841. success: completed += 1 and basic_ack; otherwise
\* failed += 1 and basic_nack(requeue=False). An error of either (the channel
\* is closed) goes to line 833: failed += 1 and basic_nack again, whose error
\* leaves the callback; start_consuming ends (line 856) and the broker takes
\* back the unsettled delivery. finally: processing -= 1
SResolve(w) ==
    /\ pc[w] = "resolve"
    /\ LET first == IF loc[w].raised THEN sstats
                    ELSE IF loc[w].success THEN Inc(sstats, "completed")
                    ELSE Inc(sstats, "failed")
           tfirst == IF loc[w].raised THEN trace[w]
                     ELSE IF loc[w].success THEN Inc(trace[w], "completed")
                     ELSE Inc(trace[w], "failed")
       IN IF chanOpen[w]
          THEN IF loc[w].success
               THEN /\ ackedIds' = BrokerAcked(ackedIds, cur[w].id)
                    /\ trace' = [trace EXCEPT ![w] = Inc(tfirst, "acks")]
                    /\ sstats' = Dec(first, "processing")
                    /\ pc' = [pc EXCEPT ![w] = "done"]
                    /\ UNCHANGED <<nackedIds, scoreQ>>
               ELSE /\ nackedIds' = nackedIds \cup {cur[w].id}
                    /\ scoreQ' = BrokerRequeued(scoreQ, cur[w], scoring_requeue)
                    /\ trace' = [trace EXCEPT ![w] =
                                   Inc(IF loc[w].raised THEN Inc(tfirst, "failed")
                                       ELSE tfirst, "nacks")]
                    /\ sstats' = Dec(IF loc[w].raised THEN Inc(first, "failed")
                                     ELSE first, "processing")
                    /\ pc' = [pc EXCEPT ![w] = "done"]
                    /\ UNCHANGED ackedIds
          ELSE /\ trace' = [trace EXCEPT ![w] =
                              [Inc(tfirst, "failed") EXCEPT !.escaped = TRUE]]
               /\ sstats' = Dec(Inc(first, "failed"), "processing")
               /\ scoreQ' = BrokerRequeued(scoreQ, cur[w], TRUE)
               /\ pc' = [pc EXCEPT ![w] = "stopped"]
               /\ UNCHANGED <<ackedIds, nackedIds>>
    /\ UNCHANGED <<main, ev, task, sched, outreach, crawlQ, nextId, nextSid, chanOpen, cur, loc, stats, files,
                   scoreFiles, leads, templates, requirements_id, supabase, faults,
                   edits>>

----------------------------------------------------------------------------
(* The environment of the scoring consumer *)

\* the requirements of a template are edited in Supabase (rescore_profile.py:
\* "Make sure you have updated the requirements in Supabase first")
UpdateTemplate ==
    /\ edits < MaxEdits
    /\ \E t \in ReqIds, v \in TemplateValues :
         /\ v # templates[t]
         /\ templates' = [templates EXCEPT ![t] = v]
    /\ edits' = edits + 1
    /\ UNCHANGED <<main, ev, task, sched, outreach, crawlQ, scoreQ, nextId, nextSid, ackedIds, nackedIds, chanOpen,
                   pc, cur, loc, trace, stats, sstats, files, scoreFiles, leads,
                   requirements_id, supabase, faults>>

\* the connection of a worker is lost; an idle worker's start_consuming ends
ChannelClosed(w) ==
    /\ chanOpen[w]
    /\ pc[w] # "stopped"
    /\ faults < MaxFaults
    /\ faults' = faults + 1
    /\ chanOpen' = [chanOpen EXCEPT ![w] = FALSE]
    /\ pc' = [pc EXCEPT ![w] = IF pc[w] \in {"idle", "done"} THEN "stopped" ELSE pc[w]]
    /\ UNCHANGED <<main, ev, task, sched, outreach, crawlQ, scoreQ, nextId, nextSid, ackedIds, nackedIds, cur, loc,
                   trace, stats, sstats, files, scoreFiles, leads, templates,
                   requirements_id, supabase, edits>>

\* bodies a producer can put on the scoring queue: the message of
\* send_to_scoring_queue (requirements_id), the message of
\* rescore_profile.publish_to_scoring_queue (template_id), one without
\* profile_data, one without either id, one for another profile, one that is
\* not JSON
ScoreBodies(id) ==
    {ScoreMsg(id, TRUE, Profile("u1", s_female, 28), Empty, r, <<"none", 0>>) : r \in ReqIds}
    \cup {ScoreMsg(id, TRUE, Profile("u1", s_female, 28), "r1", Empty, <<"none", 0>>),
          ScoreMsg(id, TRUE, Null, Empty, "r1", <<"none", 0>>),
          ScoreMsg(id, TRUE, Profile("u1", s_female, 28), Empty, Empty, <<"none", 0>>),
          ScoreMsg(id, TRUE, Profile("u3", s_male, 36), Empty, "r1", <<"none", 0>>),
          ScoreMsg(id, FALSE, Null, Empty, Empty, <<"none", 0>>)}

RECURSIVE ScoreQueues(_)
ScoreQueues(n) ==
    IF n = 0 THEN {<<>>}
    ELSE LET shorter == ScoreQueues(n - 1) IN
         shorter \cup {Append(q, m) : q \in {x \in shorter : Len(x) = n - 1},
                                      m \in ScoreBodies(<<"score", n>>)}

----------------------------------------------------------------------------
(* The crawl pipeline: producers and the Crawl Worker pool *)

NewStats ==
    [processing |-> 0, completed |-> 0, failed |-> 0, skipped |-> 0,
     sent_to_scoring |-> 0, saved_to_supabase |-> 0, supabase_failed |-> 0]

NewScoringStats ==
    [processing |-> 0, completed |-> 0, failed |-> 0, skipped |-> 0,
     supabase_updated |-> 0, supabase_failed |-> 0]

InitCommon ==
    /\ ackedIds = {}
    /\ nackedIds = {}
    /\ chanOpen = [w \in Workers |-> TRUE]
    /\ pc = [w \in Workers |-> "idle"]
    /\ cur = [w \in Workers |-> NoMsg]
    /\ loc = [w \in Workers |-> NewLoc]
    /\ trace = [w \in Workers |-> NewTrace]
    /\ stats = NewStats
    /\ sstats = NewScoringStats
    /\ files = {}
    /\ scoreFiles = {}
    /\ main = "running"

\* the crawl consumer never reads the templates table
Init ==
    /\ InitCommon
    /\ sched = NoSchedules
    /\ leads = {}
    /\ outreach = NoOutreach
    /\ edits = 0
    /\ scoreQ = <<>>
    /\ nextSid = 0
    /\ crawlQ \in CrawlQueues(MaxCrawlJobs)
    /\ nextId = Len(crawlQ)
    /\ templates = [r \in ReqIds |-> ReqA]
    /\ requirements_id = DEFAULT_REQUIREMENTS_ID
    /\ supabase = TRUE
    /\ faults = 0
    /\ ev = NoEval
    /\ task = NoTask

CrawlWorker(w) ==
    \/ CDeliver(w)
    \/ CScrape(w)
    \/ CSaveWrite(w)
    \/ CLeadSelect(w)
    \/ CLeadWrite(w)
    \/ CPublish(w)
    \/ CAck(w)
    \/ CExcept(w)
    \/ CFinally(w)
    \/ CFatal(w)
    \/ Return(w)

Next ==
    \E w \in CrawlWorkers : CrawlWorker(w)

Spec == Init /\ [][Next]_vars

----------------------------------------------------------------------------
(* The scoring pipeline: the Scoring Worker pool and the templates table *)

InitScoring ==
    /\ InitCommon
    /\ sched = NoSchedules
    /\ leads = {}
    /\ outreach = NoOutreach
    /\ crawlQ = <<>>
    /\ nextId = 0
    /\ scoreQ \in ScoreQueues(MaxScoreJobs)
    /\ nextSid = Len(scoreQ)
    /\ templates = [r \in ReqIds |-> IF r = "r1" THEN ReqA ELSE NoReq]
    /\ requirements_id = DEFAULT_REQUIREMENTS_ID
    /\ supabase = TRUE
    /\ faults = 0
    /\ edits = 0
    /\ ev = NoEval
    /\ task = NoTask

ScoreWorker(w) ==
    \/ SDeliver(w)
    \/ SLoad(w)
    \/ SSaveWrite(w)
    \/ SLeadSelect(w)
    \/ SLeadWrite(w)
    \/ SResolve(w)
    \/ Return(w)

NextScoring ==
    \/ UpdateTemplate
    \/ \E w \in ScoreWorkers : ScoreWorker(w)

SpecScoring == InitScoring /\ [][NextScoring]_vars

\* the scoring pipeline on a broker whose connections can be lost
NextScoringLossy ==
    \/ NextScoring
    \/ \E w \in ScoreWorkers : ChannelClosed(w)

SpecScoringLossy == InitScoring /\ [][NextScoringLossy]_vars

----------------------------------------------------------------------------
(* api/scheduler_service.py: SchedulerService.run_crawl_task and its worker  *)
(* threads. stats is a plain dict without a lock: stats[k] += 1 is a read    *)
(* of stats[k] followed by a write, and another thread may run in between.   *)

MaxTaskUrls == 2

TaskWorkers == {"t1", "t2"}

\* everything run_crawl_task leaves alone
PipelineNoEval ==
    <<crawlQ, scoreQ, nextId, nextSid, ackedIds, nackedIds, chanOpen, pc, cur, loc,
      trace, stats, sstats, files, scoreFiles, leads, templates, requirements_id,
      supabase, edits, main>>

PipelineVars == <<PipelineNoEval, ev>>

\* lines 157-167: url_queue filled with profile_urls, stats all 0; ops is
\* history: the net number of += 1 / -= 1 statements executed per counter
NewTask(profile_urls) ==
    [stage |-> "running",
     url_queue |-> profile_urls,
     unfinished |-> Len(profile_urls),
     stats |-> [processing |-> 0, completed |-> 0, failed |-> 0, skipped |-> 0],
     ops |-> [processing |-> 0, completed |-> 0, failed |-> 0, skipped |-> 0],
     wpc |-> [w \in TaskWorkers |-> "get"],
     reg |-> [w \in TaskWorkers |-> 0],
     ok |-> [w \in TaskWorkers |-> TRUE]]

RECURSIVE UrlLists(_)
UrlLists(n) ==
    IF n = 0 THEN {<<>>}
    ELSE LET shorter == UrlLists(n - 1) IN
         shorter \cup {Append(q, u) : q \in {x \in shorter : Len(x) = n - 1}, u \in Urls}

\* the counter a read or write step works on, and the amount it adds
TaskCounter(w) ==
    CASE task.wpc[w] \in {"inc_r", "inc_w"} -> "processing"
      [] task.wpc[w] \in {"dec_r", "dec_w"} -> "processing"
      [] OTHER -> IF task.ok[w] THEN "completed" ELSE "failed"
TaskDelta(w) == IF task.wpc[w] \in {"dec_r", "dec_w"} THEN -1 ELSE 1

\* lines 176-186: url_queue.get(timeout=2) and db.add_crawl_history, whose
\* error is not a queue.Empty and ends the thread
TGet(w) ==
    /\ task.stage # "none"
    /\ task.wpc[w] = "get"
    /\ task.url_queue # <<>>
    /\ \E recorded \in Outcomes :
         /\ faults' = Charged(recorded)
         /\ task' = [task EXCEPT !.url_queue = Tail(@),
                                 !.wpc[w] = IF recorded THEN "inc_r" ELSE "dead"]
    /\ UNCHANGED <<PipelineVars, sched, outreach>>

\* the load of stats[k] in stats[k] += 1 (lines 188, 209, 213, 229)
TRead(w) ==
    /\ task.stage # "none"
    /\ task.wpc[w] \in {"inc_r", "cnt_r", "dec_r"}
    /\ task' = [task EXCEPT !.reg[w] = task.stats[TaskCounter(w)],
                            !.wpc[w] = CASE task.wpc[w] = "inc_r" -> "inc_w"
                                         [] task.wpc[w] = "cnt_r" -> "cnt_w"
                                         [] OTHER -> "dec_w"]
    /\ UNCHANGED <<PipelineVars, faults, sched, outreach>>

\* the store of stats[k] in stats[k] += 1
TWrite(w) ==
    /\ task.stage # "none"
    /\ task.wpc[w] \in {"inc_w", "cnt_w", "dec_w"}
    /\ task' = [task EXCEPT
                  !.stats[TaskCounter(w)] = task.reg[w] + TaskDelta(w),
                  !.ops[TaskCounter(w)] = @ + TaskDelta(w),
                  !.wpc[w] = CASE task.wpc[w] = "inc_w" -> "scrape"
                               [] task.wpc[w] = "cnt_w" -> "finally"
                               [] OTHER -> "get"]
    /\ UNCHANGED <<PipelineVars, faults, sched, outreach>>

\* lines 190-221: LinkedInCrawler(), whose error ends the thread, then login,
\* get_profile, save_profile_data and update_crawl_history inside the try
TScrape(w) ==
    /\ task.stage # "none"
    /\ task.wpc[w] = "scrape"
    /\ \/ \E scraped \in Outcomes :
            /\ faults' = Charged(scraped)
            /\ task' = [task EXCEPT !.ok[w] = scraped, !.wpc[w] = "cnt_r"]
       \/ /\ FALSE \in Outcomes
          /\ faults' = Charged(FALSE)
          /\ task' = [task EXCEPT !.wpc[w] = "dead"]
    /\ UNCHANGED <<PipelineVars, sched, outreach>>

\* lines 223-228: crawler.close(), whose error ends the thread, then
\* url_queue.task_done()
TFinally(w) ==
    /\ task.stage # "none"
    /\ task.wpc[w] = "finally"
    /\ \E closed \in Outcomes :
         /\ faults' = Charged(closed)
         /\ task' = IF closed
                    THEN [task EXCEPT !.unfinished = @ - 1, !.wpc[w] = "dec_r"]
                    ELSE [task EXCEPT !.wpc[w] = "dead"]
    /\ UNCHANGED <<PipelineVars, sched, outreach>>

\* lines 231-234: queue.Empty with the queue empty: break
TExit(w) ==
    /\ task.stage # "none"
    /\ task.wpc[w] = "get"
    /\ task.url_queue = <<>>
    /\ task' = [task EXCEPT !.wpc[w] = "exit"]
    /\ UNCHANGED <<PipelineVars, faults, sched, outreach>>

\* line 245: url_queue.join() returns once every get has had its task_done
TJoin ==
    /\ task.stage = "running"
    /\ task.unfinished = 0
    /\ task' = [task EXCEPT !.stage = "completed"]
    /\ UNCHANGED <<PipelineVars, faults, sched, outreach>>

TaskWorker(w) ==
    \/ TGet(w)
    \/ TRead(w)
    \/ TWrite(w)
    \/ TScrape(w)
    \/ TFinally(w)
    \/ TExit(w)

InitTask ==
    /\ InitCommon
    /\ sched = NoSchedules
    /\ leads = {}
    /\ outreach = NoOutreach
    /\ crawlQ = <<>>
    /\ scoreQ = <<>>
    /\ nextId = 0
    /\ nextSid = 0
    /\ templates = [r \in ReqIds |-> ReqA]
    /\ requirements_id = DEFAULT_REQUIREMENTS_ID
    /\ supabase = TRUE
    /\ faults = 0
    /\ edits = 0
    /\ ev = NoEval
    /\ task \in {NewTask(q) : q \in UrlLists(MaxTaskUrls)}

NextTask ==
    \/ TJoin
    \/ \E w \in TaskWorkers : TaskWorker(w)

SpecTask == InitTask /\ [][NextTask]_vars

\* every thread that can take a step is eventually scheduled, and so is the
\* thread of run_crawl_task that waits in url_queue.join()
SpecTaskFair ==
    /\ InitTask
    /\ [][NextTask]_vars
    /\ WF_vars(TJoin)
    /\ \A w \in TaskWorkers : WF_vars(TaskWorker(w))

----------------------------------------------------------------------------
(* crawler_consumer.main: the main thread and the shutdown of the process    *)

\* lines 504-511: KeyboardInterrupt reaches the main thread in its sleep loop
MainInterrupt ==
    /\ main = "running"
    /\ main' = "interrupted"
    /\ UNCHANGED <<crawlQ, scoreQ, nextId, nextSid, ackedIds, nackedIds, chanOpen, pc,
                   cur, loc, trace, stats, sstats, files, scoreFiles, leads, templates,
                   requirements_id, supabase, faults, edits, ev, task, sched, outreach>>

\* lines 513-534: time.sleep(3), the final statistics, and main returns; the
\* workers are daemon threads (line 492) and end with the process wherever
\* they are
MainExit ==
    /\ main = "interrupted"
    /\ main' = "exited"
    /\ UNCHANGED <<crawlQ, scoreQ, nextId, nextSid, ackedIds, nackedIds, chanOpen, pc,
                   cur, loc, trace, stats, sstats, files, scoreFiles, leads, templates,
                   requirements_id, supabase, faults, edits, ev, task, sched, outreach>>

NextShutdown ==
    \/ MainInterrupt
    \/ MainExit
    \/ /\ main # "exited"
       /\ \E w \in CrawlWorkers : CrawlWorker(w)

SpecShutdown == Init /\ [][NextShutdown]_vars

\* every worker thread keeps being scheduled while it has a step to take
SpecFair == Init /\ [][Next]_vars /\ \A w \in CrawlWorkers : WF_vars(CrawlWorker(w))

----------------------------------------------------------------------------
(* OptimizedScorer at work: process_message builds a scorer for the        *)
(* requirements it loaded and calls score(profile); the same pair can be   *)
(* scored again by that instance, by a new instance in the same process    *)
(* (the next callback), or by a new instance in another process (the       *)
(* consumer started again).                                                *)

\* the hash seeds a process can start with
HashSeeds == {0, 1}

ChecklistSpec(position, items) ==
    [DefaultRequirements EXCEPT !.position = position, !.requirements = items]

\* the profile and the checklist of the end-to-end example; an entry of the
\* 'requirements' list is {type, value}, an entry of required_skills is
\* skill -> weight
ExampleProfile ==
    [Profile("u1", s_female, 28) EXCEPT
       !.location = Text.Bandung,
       !.experiences = <<Experience(Text.Collection_Officer, Text.BPR, s_empty,
                                    s_empty, Text.three_years_two_months)>>,
       !.skills = <<Text.Negotiation>>,
       !.education = <<[degree |-> Text.Diploma]>>]

ExampleItems ==
    <<[type |-> "gender", value |-> s_female],
      [type |-> "location", value |-> Text.bandung],
      [type |-> "age", value |-> AgeRange(20, 35)],
      [type |-> "experience", value |-> 2],
      [type |-> "skill", value |-> Text.negotiation]>>

ExampleSpec == ChecklistSpec(s_empty, ExampleItems)

\* the same requirements in the format convert_old_to_new_format starts from
ExampleOldFormat ==
    [DefaultRequirements EXCEPT
       !.required_gender = s_female, !.required_location = Text.bandung,
       !.required_age_range = AgeRange(20, 35), !.min_experience_years = 2,
       !.required_skills = <<[name |-> Text.negotiation, weight |-> 1]>>]

ScorerProfiles ==
    {ExampleProfile,
     [ExampleProfile EXCEPT !.experiences =
         <<Experience(Text.Collection_Officer, Text.BPR, s_empty,
                      Text.three_years_two_months, Text.three_years_two_months)>>],
     [Profile("u2", s_male, 36) EXCEPT
         !.location = Text.Depak,
         !.experiences = <<Experience(Text.Collection_Officer, Text.BPR, s_empty,
                                      Text.one_year, Text.one_year)>>,
         !.education = <<[degree |-> Text.Diploma]>>]}
    \cup {Profile("u1", g, a) : g \in {s_female, s_male, Text.Female, s_empty},
                                a \in {0, 19, 20, 28, 35, 36}}
    \cup {[Profile("u1", s_female, a) EXCEPT !.estimated_age = e] :
            a \in {0, 50},
            e \in {[plain |-> 0, value |-> 28, estimated_age |-> 0],
                   [plain |-> 0, value |-> 0, estimated_age |-> 28],
                   [plain |-> 28, value |-> 0, estimated_age |-> 0]}}

ScorerRequirements ==
    {ExampleSpec,
     ChecklistSpec(Text.Collection_Officer, ExampleItems),
     ChecklistSpec(s_empty, <<>>),
     ChecklistSpec(Text.Collection_Officer, <<>>),
     ExampleOldFormat,
     [ExampleOldFormat EXCEPT
        !.required_location = Text.depok,
        !.required_skills = <<[name |-> Text.collection, weight |-> 1],
                              [name |-> Text.negotiation, weight |-> 1]>>,
        !.education_level = <<Text.bachelor>>],
     [ExampleOldFormat EXCEPT !.required_gender = s_empty],
     [ExampleOldFormat EXCEPT
        !.required_skills = <<[name |-> Text.negotiation, weight |-> 0]>>],
     ReqA,
     ReqB,
     [ReqA EXCEPT !.min_experience_years = 1],
     [ReqA EXCEPT !.education_level = <<Text.certificate>>],
     [ReqA EXCEPT !.education_level = <<Text.diploma>>]}

\* score(), lines 199-203: the dict it returns
score_result(requirements, profile, seed) ==
    [total_score |-> score(requirements, profile),
     percentage |-> percentage(score(requirements, profile)),
     breakdown |-> breakdown_of(requirements, profile, seed)]

\* process_message, lines 713-715: OptimizedScorer(requirements).score(profile)
ScoreOnce ==
    /\ ev.stage = "new"
    /\ ev' = [ev EXCEPT !.stage = "once",
                        !.first = score_result(ev.requirements, ev.profile, ev.seed)]
    /\ UNCHANGED <<PipelineNoEval, faults, task, sched, outreach>>

\* score(profile) once more on the same instance: the first result holds
\* self.breakdown itself, which this call writes again
ScoreAgain ==
    /\ ev.stage = "once"
    /\ LET result == score_result(ev.requirements, ev.profile, ev.seed)
       IN  ev' = [ev EXCEPT !.stage = "twice", !.by = "same instance",
                            !.second = result,
                            !.first.breakdown = result.breakdown]
    /\ UNCHANGED <<PipelineNoEval, faults, task, sched, outreach>>

\* a new OptimizedScorer in the same process: the next callback of a worker
ScoreFresh ==
    /\ ev.stage = "once"
    /\ ev' = [ev EXCEPT !.stage = "twice", !.by = "new instance",
                        !.second = score_result(ev.requirements, ev.profile, ev.seed)]
    /\ UNCHANGED <<PipelineNoEval, faults, task, sched, outreach>>

\* a new OptimizedScorer after the consumer was started again (main, lines
\* 866-958): the new process has a hash seed of its own; by records who ran
\* the second evaluation
ScoreRestarted ==
    /\ ev.stage = "once"
    /\ \E seed \in HashSeeds :
         ev' = [ev EXCEPT !.stage = "twice", !.seed = seed, !.by = "new process",
                          !.second = score_result(ev.requirements, ev.profile, seed)]
    /\ UNCHANGED <<PipelineNoEval, faults, task, sched, outreach>>

NoResult == [total_score |-> -1]

InitScorer ==
    /\ InitCommon
    /\ sched = NoSchedules
    /\ leads = {}
    /\ outreach = NoOutreach
    /\ crawlQ = <<>>
    /\ scoreQ = <<>>
    /\ nextId = 0
    /\ nextSid = 0
    /\ templates = [r \in ReqIds |-> ReqA]
    /\ requirements_id = DEFAULT_REQUIREMENTS_ID
    /\ supabase = TRUE
    /\ faults = 0
    /\ edits = 0
    /\ task = NoTask
    /\ ev \in {[stage |-> "new", profile |-> p, requirements |-> r, seed |-> h,
                by |-> "nobody", first |-> NoResult, second |-> NoResult] :
                 p \in ScorerProfiles, r \in ScorerRequirements, h \in HashSeeds}

NextScorer == ScoreOnce \/ ScoreAgain \/ ScoreFresh \/ ScoreRestarted

SpecScorer == InitScorer /\ [][NextScorer]_vars

----------------------------------------------------------------------------
(* The API process of api/main.py: the lead-inserted webhook, and the       *)
(* schedule endpoints over the crawler_schedules table                     *)
(* (api/database.py) and the jobs of SchedulerService's BackgroundScheduler *)
(* (api/scheduler_service.py). The handlers are coroutines without an      *)
(* await, so each runs to its end before the next one starts. A job is     *)
(* "scheduled" (it will fire), "paused" or "none" (not registered).        *)

\* SchedulerService.add_job, lines 54-88: the jobs it leaves; a missing row
\* and a start_schedule that is not a five-field cron expression raise
\* before scheduler.add_job(..., replace_existing=True)
add_job(rows, jobs, id) ==
    IF rows[id].status = "active" /\ rows[id].cron_ok
    THEN [jobs EXCEPT ![id] = "scheduled"]
    ELSE jobs

\* POST /api/schedules: db.create_schedule (a new id, status 'active'), then
\* scheduler.add_job
SCreate(id) ==
    /\ sched.running
    /\ sched.rows[id].status = "none"
    /\ \E cron_ok \in BOOLEAN, ok \in Outcomes :
         /\ faults' = Charged(ok)
         /\ IF ok
            THEN LET rows == [sched.rows EXCEPT
                                ![id] = [status |-> "active", cron_ok |-> cron_ok]]
                 IN  sched' = [sched EXCEPT
                                  !.rows = rows,
                                  !.jobs = add_job(rows, sched.jobs, id),
                                  !.response = [op |-> "create",
                                                code |-> IF cron_ok THEN 200 ELSE 400]]
            ELSE sched' = [sched EXCEPT !.response = [op |-> "create", code |-> 400]]
    /\ UNCHANGED <<PipelineVars, task, outreach>>

\* PUT /api/schedules/{id}: db.update_schedule with the fields that were set
\* (it raises when the row is missing), then reschedule_job = remove_job
\* followed by add_job
SUpdate(id) ==
    /\ sched.running
    /\ sched.rows[id].status # "none"
    /\ \E status \in {sched.rows[id].status, "active", "paused"},
          cron_ok \in BOOLEAN, ok \in Outcomes :
         /\ faults' = Charged(ok)
         /\ IF ok
            THEN LET rows == [sched.rows EXCEPT
                                ![id] = [status |-> status, cron_ok |-> cron_ok]]
                 IN  sched' = [sched EXCEPT
                                  !.rows = rows,
                                  !.jobs = add_job(rows, [sched.jobs EXCEPT ![id] = "none"],
                                                   id),
                                  !.response = [op |-> "update",
                                                code |-> IF status = "active" /\ ~cron_ok
                                                         THEN 400 ELSE 200]]
            ELSE sched' = [sched EXCEPT !.response = [op |-> "update", code |-> 400]]
    /\ UNCHANGED <<PipelineVars, task, outreach>>

\* DELETE /api/schedules/{id}: scheduler.remove_job, then db.delete_schedule
SDelete(id) ==
    /\ sched.running
    /\ sched.rows[id].status # "none"
    /\ \E ok \in Outcomes :
         /\ faults' = Charged(ok)
         /\ sched' = [sched EXCEPT
                         !.rows = IF ok THEN [sched.rows EXCEPT ![id].status = "none"]
                                  ELSE sched.rows,
                         !.jobs[id] = "none",
                         !.response = [op |-> "delete", code |-> IF ok THEN 200 ELSE 400]]
    /\ UNCHANGED <<PipelineVars, task, outreach>>

\* POST /api/schedules/{id}/toggle: get_schedule; for a missing row the
\* HTTPException(404) is raised inside the try and the handler of line 257
\* answers 400 with its text; else the other status is stored, then
\* resume_job or pause_job, which only print the JobLookupError of a job that
\* is not registered
SToggle(id) ==
    /\ sched.running
    /\ \E ok \in Outcomes :
         /\ faults' = Charged(ok)
         /\ LET found == sched.rows[id].status # "none"
                new_status == IF sched.rows[id].status = "active"
                              THEN "paused" ELSE "active"
                job == IF sched.jobs[id] = "none" THEN "none"
                       ELSE IF new_status = "active" THEN "scheduled" ELSE "paused"
                response(code, status) ==
                    [op |-> "toggle", id |-> id, found |-> found, code |-> code,
                     status |-> status, rows |-> sched.rows, jobs |-> sched.jobs]
            IN  IF ok /\ found
                THEN sched' = [sched EXCEPT
                                 !.rows[id].status = new_status,
                                 !.jobs[id] = job,
                                 !.response = response(200, new_status)]
                ELSE sched' = [sched EXCEPT !.response = response(400, "none")]
    /\ UNCHANGED <<PipelineVars, task, outreach>>

\* startup_event (main.py lines 127-134) and SchedulerService.start: the
\* scheduler starts and _load_schedules adds a job for every row that
\* get_active_schedules returns, printing the error of an add_job that raises
SStart ==
    /\ ~sched.running
    /\ sched' = [sched EXCEPT
                    !.running = TRUE,
                    !.jobs = [id \in ScheduleIds |-> add_job(sched.rows, sched.jobs, id)[id]]]
    /\ UNCHANGED <<PipelineVars, task, faults, outreach>>

\* a webhook that queues every event of leads_list, whatever its type
webhook_lead_inserted_mut ==
    /\ sched.running
    /\ nextId < MaxCrawlJobs
    /\ \E type \in {"INSERT", "UPDATE"}, table \in {"leads_list", "templates"},
          profile_url \in {"u1", Empty}, connected \in Outcomes, closed \in Outcomes :
         LET accepted == table = "leads_list" /\ profile_url # Empty
             published == accepted /\ connected
             success == published /\ closed
         IN  /\ faults' = IF accepted THEN Charged(connected /\ closed) ELSE faults
             /\ crawlQ' = IF published
                          THEN Append(crawlQ, CrawlMsg(<<"crawl", nextId + 1>>, TRUE,
                                                       profile_url, Empty, "default"))
                          ELSE crawlQ
             /\ nextId' = IF published THEN nextId + 1 ELSE nextId
             /\ sched' = [sched EXCEPT !.response =
                             [op |-> "webhook", type |-> type, table |-> table,
                              profile_url |-> profile_url,
                              code |-> IF accepted /\ ~success THEN 500 ELSE 200,
                              success |-> success,
                              queue |-> crawlQ]]
    /\ UNCHANGED <<scoreQ, nextSid, ackedIds, nackedIds, chanOpen, pc, cur, loc, trace,
                   stats, sstats, files, scoreFiles, leads, templates, requirements_id,
                   supabase, edits, main, ev, task, outreach>>

\* POST /api/webhook/lead-inserted, lines 789-851, with
\* publish_to_crawler_queue, lines 741-786 (False when connecting or
\* publishing raises, and when connection.close() raises after the publish):
\* events other than an INSERT on leads_list with a profile_url are answered
\* "Ignored"; response.queue is the crawl queue before the request (history)
webhook_lead_inserted ==
    /\ sched.running
    /\ nextId < MaxCrawlJobs
    /\ \E type \in {"INSERT", "UPDATE"}, table \in {"leads_list", "templates"},
          profile_url \in {"u1", Empty}, connected \in Outcomes, closed \in Outcomes :
         LET accepted == /\ type = "INSERT"
                         /\ table = "leads_list"
                         /\ profile_url # Empty
             published == accepted /\ connected
             success == published /\ closed
         IN  /\ faults' = IF accepted THEN Charged(connected /\ closed) ELSE faults
             /\ crawlQ' = IF published
                          THEN Append(crawlQ, CrawlMsg(<<"crawl", nextId + 1>>, TRUE,
                                                       profile_url, Empty, "default"))
                          ELSE crawlQ
             /\ nextId' = IF published THEN nextId + 1 ELSE nextId
             /\ sched' = [sched EXCEPT !.response =
                             [op |-> "webhook", type |-> type, table |-> table,
                              profile_url |-> profile_url,
                              code |-> IF accepted /\ ~success THEN 500 ELSE 200,
                              success |-> success,
                              queue |-> crawlQ]]
    /\ UNCHANGED <<scoreQ, nextSid, ackedIds, nackedIds, chanOpen, pc, cur, loc, trace,
                   stats, sstats, files, scoreFiles, leads, templates, requirements_id,
                   supabase, edits, main, ev, task, outreach>>

NextSchedules ==
    \/ SStart
    \/ \E id \in ScheduleIds : SCreate(id) \/ SUpdate(id) \/ SDelete(id) \/ SToggle(id)
    \/ webhook_lead_inserted

\* the API process is about to start: the table holds the rows that earlier
\* runs stored, the new scheduler holds no job
InitSchedules ==
    /\ InitCommon
    /\ leads = {}
    /\ outreach = NoOutreach
    /\ crawlQ = <<>>
    /\ scoreQ = <<>>
    /\ nextId = 0
    /\ nextSid = 0
    /\ templates = [r \in ReqIds |-> ReqA]
    /\ requirements_id = DEFAULT_REQUIREMENTS_ID
    /\ supabase = TRUE
    /\ faults = 0
    /\ edits = 0
    /\ ev = NoEval
    /\ task = NoTask
    /\ sched \in {[NoSchedules EXCEPT !.rows = rows] :
                    rows \in [ScheduleIds ->
                                {[status |-> st, cron_ok |-> TRUE] :
                                   st \in {"none", "active", "paused"}}]}

SpecSchedules == InitSchedules /\ [][NextSchedules]_vars

----------------------------------------------------------------------------
(* Outreach: POST /api/outreach/send of api/main.py puts one message per   *)
(* lead on outreach_queue; crawler_outreach.worker consumes it with        *)
(* prefetch_count = 1 in a single thread. A message carries name,          *)
(* profile_url, message and dry_run; dry_run is "true", "false", "null"    *)
(* (JSON null) or "absent" (the key is missing).                           *)

MaxOutreachJobs == 2

\* send_outreach, lines 894-1011, for a request of one lead: a lead without
\* name or profile_url is dropped (400 when none is left), the message
\* carries request.dry_run, which OutreachRequest defaults to True
OSend ==
    /\ Len(outreach.queue) + outreach.sent < MaxOutreachJobs
    /\ \E profile_url \in {"u1", "u2", Empty}, message \in {"hello", Empty},
          dry_run \in {"absent", "true", "false"} :
         outreach' = [outreach EXCEPT
                        !.sent = @ + 1,
                        !.queue = IF profile_url = Empty THEN @
                                  ELSE Append(@, [valid |-> TRUE,
                                                  name |-> "n_" \o profile_url,
                                                  profile_url |-> profile_url,
                                                  message |-> message,
                                                  dry_run |-> IF dry_run = "false"
                                                              THEN "false" ELSE "true"])]
    /\ UNCHANGED <<PipelineVars, task, sched, faults>>

\* worker.callback, lines 397-480, with process_outreach_job (329-366) and
\* send_connection_request (60-326): browser is what the page lets the job
\* do ("raise": create_driver or login raises; "failed": a step raises inside
\* send_connection_request; "typed": the note is typed and the dry_run test
\* at line 262 is reached); saved is the outcome of save_lead
OCallback ==
    /\ outreach.queue # <<>>
    /\ \E browser \in {"raise", "failed", "already_connected", "typed"},
          saved \in Outcomes :
         LET message_data == Head(outreach.queue)
             \* message_data.get('dry_run', True) and its truth value
             dry_run == message_data.dry_run \in {"absent", "true"}
             complete == /\ message_data.profile_url # Empty
                         /\ message_data.message # Empty
             raised == ~message_data.valid \/ (complete /\ browser = "raise")
             status == IF ~complete THEN "invalid"
                       ELSE IF browser = "typed"
                       THEN IF dry_run THEN "dry_run_success" ELSE "sent"
                       ELSE browser
             connection_status ==
                 CASE status = "already_connected" -> "already_connected"
                   [] status = "dry_run_success" -> "test_run"
                   [] status = "sent" -> "connection_sent"
                   [] OTHER -> "failed"
             profile_data == [null |-> FALSE,
                              profile_url |-> message_data.profile_url,
                              name |-> message_data.name,
                              message_template |-> message_data.message,
                              dry_run |-> dry_run, result |-> status]
             saving == /\ ~raised
                       /\ supabase
                       /\ status \in {"sent", "dry_run_success", "already_connected"}
         IN  /\ faults' = IF saving THEN Charged(saved) ELSE faults
             /\ leads' = IF saving /\ saved
                         THEN IF LeadsOf(message_data.profile_url) # {}
                              THEN SaveLeadUpdate(message_data.profile_url,
                                                  message_data.name, profile_data,
                                                  connection_status)
                              ELSE leads \cup {NewLead(message_data.profile_url,
                                                       message_data.name, profile_data,
                                                       connection_status)}
                         ELSE leads
             /\ outreach' = [outreach EXCEPT
                                !.queue = Tail(@),
                                !.last = [status |-> IF raised THEN "raised" ELSE status,
                                          dry_run |-> message_data.dry_run,
                                          clicked |-> ~raised /\ status = "sent",
                                          resolved |-> IF raised THEN "nack" ELSE "ack",
                                          profile_url |-> message_data.profile_url,
                                          before |-> leads]]
    /\ UNCHANGED <<crawlQ, scoreQ, nextId, nextSid, ackedIds, nackedIds, chanOpen, pc,
                   cur, loc, trace, stats, sstats, files, scoreFiles, templates,
                   requirements_id, supabase, edits, main, ev, task, sched>>

NextOutreach == OSend \/ OCallback

\* the worker starts on a durable queue that holds what its producers left
\* there, beside a leads_list with or without the scraped and scored lead of u1
InitOutreach ==
    /\ InitCommon
    /\ sched = NoSchedules
    /\ crawlQ = <<>>
    /\ scoreQ = <<>>
    /\ nextId = 0
    /\ nextSid = 0
    /\ templates = [r \in ReqIds |-> ReqA]
    /\ requirements_id = DEFAULT_REQUIREMENTS_ID
    /\ supabase = TRUE
    /\ faults = 0
    /\ edits = 0
    /\ ev = NoEval
    /\ task = NoTask
    /\ leads \in {{}, {[id |-> 1, profile_url |-> "u1", name |-> "n_u1",
                        profile_data |-> Profile("u1", s_female, 28),
                        connection_status |-> "scraped", score |-> 60]}}
    /\ outreach \in {[NoOutreach EXCEPT !.queue = q] :
                       q \in {<<>>} \cup
                             {<<[valid |-> valid, name |-> "n_u1", profile_url |-> "u1",
                                 message |-> "hello", dry_run |-> dry_run]>> :
                                valid \in BOOLEAN,
                                dry_run \in {"absent", "null", "true", "false"}}}

SpecOutreach == InitOutreach /\ [][NextOutreach]_vars

----------------------------------------------------------------------------
(* Claims C1 - C10 *)

ValidCrawlJob(w) == cur[w].valid /\ cur[w].url # Empty

\* C1: a CrawlJob whose profile_url is already in the Dedup Index when it is
\* delivered is skipped: the Scraper is not invoked for it, no ScoreJob is
\* published for it, skipped is incremented by one and the message is acked.
C1_DuplicateIsSkipped ==
    \A w \in CrawlWorkers :
        (faults = 0 /\ pc[w] # "idle" /\ trace[w].dup) =>
            /\ trace[w].scraper = 0
            /\ trace[w].published = 0
            /\ (pc[w] = "done" => trace[w].skipped = 1 /\ trace[w].acks = 1)

\* C2: every delivery is resolved before its callback returns, by an ack or a
\* nack, and no exception leaves the callback.
C2_AlwaysResolved ==
    \A w \in Workers :
        /\ ~trace[w].escaped
        /\ (pc[w] = "done" => trace[w].acks + trace[w].nacks >= 1)

\* C3: at most one crawl is recorded per profile_url, whatever the
\* interleaving of the Crawl Workers.
C3_OneRecordPerUrl ==
    \A u \in Urls : Cardinality({f \in files : f.data.profile_url = u}) <= 1

\* C4: after a ScoreJob for a profile_url has been processed (and no other
\* worker is busy), the Lead of that URL holds the score that evaluating this
\* ScoreJob yields.
C4_LeadHoldsLatestScore ==
    \A w \in ScoreWorkers :
        (/\ faults = 0
         /\ pc[w] = "done"
         /\ trace[w].acks = 1
         /\ trace[w].expected >= 0
         /\ \A v \in ScoreWorkers \ {w} : pc[v] = "idle") =>
            /\ LeadsOf(loc[w].profile_data.profile_url) # {}
            /\ \A r \in LeadsOf(loc[w].profile_data.profile_url) :
                   r.score = trace[w].expected

\* C5 as stated: a ScoreJob is in the scoring queue only when the CrawlJob
\* that produced it has been acked.
C5_PublishedOnlyAfterAck ==
    \A i \in DOMAIN scoreQ : scoreQ[i].src \in ackedIds

\* C5 as amended: a ScoreJob is published only for a CrawlJob whose scrape
\* succeeded and that is still unacknowledged; the ack comes after the publish.
C5_PublishedBeforeAck ==
    [][\A w \in CrawlWorkers :
          trace'[w].published > trace[w].published =>
              /\ ~Settled(cur[w].id)
              /\ trace[w].scraper = 1
              /\ ~loc[w].scrape_failed
              /\ ~loc[w].profile_data.null
              /\ Len(scoreQ') = Len(scoreQ) + 1
              /\ scoreQ'[Len(scoreQ')].src = cur[w].id
              /\ pc'[w] = "ack"]_vars

C5_Witness ==
    \E w \in CrawlWorkers :
        /\ pc[w] = "ack"
        /\ trace[w].published = 1
        /\ ~Settled(cur[w].id)
        /\ \E i \in DOMAIN scoreQ : scoreQ[i].src = cur[w].id

\* C6: the ScoreJob published for a CrawlJob carries the Profile the Scraper
\* returned, that profile's URL, and the requirements_id of the CrawlJob.
C6_ScoreJobCarriesJobRequirements ==
    \A w \in CrawlWorkers : \A i \in DOMAIN scoreQ :
        (pc[w] # "idle" /\ scoreQ[i].src = cur[w].id) =>
            /\ scoreQ[i].profile_data = loc[w].profile_data
            /\ scoreQ[i].profile_url = loc[w].profile_data.profile_url
            /\ scoreQ[i].requirements_id = cur[w].requirements_id

\* C7: a CrawlJob counted as completed and acked has had one ScoreJob
\* published for it; with no job in flight sent_to_scoring = completed.
C7_CompletedMeansPublished ==
    /\ \A w \in CrawlWorkers :
           (pc[w] = "done" /\ trace[w].completed = 1 /\ trace[w].acks = 1) =>
               trace[w].published = 1
    /\ (\A w \in CrawlWorkers : pc[w] = "idle") =>
           stats.sent_to_scoring = stats.completed

\* C8: when login() or get_profile() fails, the callback counts one failed and
\* no completed, publishes no ScoreJob, nacks without requeue, and the message
\* is never in the crawl queue again.
C8_ScraperFailureDropsJob ==
    \A w \in CrawlWorkers :
        (pc[w] = "done" /\ loc[w].scrape_failed) =>
            /\ trace[w].failed = 1
            /\ trace[w].completed = 0
            /\ trace[w].published = 0
            /\ trace[w].acks = 0
            /\ trace[w].nacks >= 1
            /\ cur[w].id \in nackedIds
            /\ \A i \in DOMAIN crawlQ : crawlQ[i].id # cur[w].id
            /\ \A v \in CrawlWorkers \ {w} : cur[v].id # cur[w].id

C8_Witness ==
    \E w \in CrawlWorkers :
        /\ pc[w] = "done"
        /\ loc[w].scrape_failed
        /\ trace[w].scraper = 1
        /\ trace[w].nacks = 1

\* what C9 promises for a ScoreJob
NackedUnscored(w) ==
    /\ trace[w].failed = 1
    /\ trace[w].completed = 0
    /\ trace[w].nacks = 1
    /\ trace[w].acks = 0
    /\ cur[w].id \in nackedIds
    /\ \A i \in DOMAIN scoreQ : scoreQ[i].id # cur[w].id
    /\ trace[w].evaluated = 0
    /\ trace[w].wrote = 0
    /\ trace[w].lead = 0

InvalidJob(w) ==
    IF w \in CrawlWorkers
    THEN ~ValidCrawlJob(w)
    ELSE ~cur[w].valid \/ cur[w].profile_data.null \/ ReqIdOf(cur[w]) = Empty

\* C10: a message without a required field, or that is not JSON, is dropped
\* without requeue, without the Scraper or the scorer being run, and counted
\* failed exactly once.
C10_InvalidCountedFailed ==
    \A w \in Workers :
        (pc[w] = "done" /\ InvalidJob(w)) =>
            /\ trace[w].failed = 1
            /\ trace[w].scraper = 0
            /\ trace[w].evaluated = 0
            /\ Settled(cur[w].id)
            /\ \A i \in DOMAIN crawlQ : crawlQ[i].id # cur[w].id
            /\ \A i \in DOMAIN scoreQ : scoreQ[i].id # cur[w].id

----------------------------------------------------------------------------
(* Claims C11 - C20 *)

\* C11: a message during whose handling the broker or a store was unreachable
\* is neither acked nor nacked and not counted completed; the worker does not
\* return to consuming.
C11_InfraErrorLeavesUnacked ==
    \A w \in Workers :
        trace[w].infra =>
            /\ trace[w].acks = 0
            /\ trace[w].nacks = 0
            /\ trace[w].completed = 0
            /\ pc[w] # "done"

\* C12: the Lead Store holds at most one Lead per profile_url.
C12_OneLeadPerUrl ==
    \A u \in Urls : Cardinality(LeadsOf(u)) <= 1

\* C13: a ScoreJob for an already scored (profile_url, requirements id) pair
\* is skipped and acked without evaluation or writes, and at most one score
\* record exists per pair.
C13_NoDuplicateScoring ==
    /\ \A w \in ScoreWorkers :
           (pc[w] = "done" /\ trace[w].dup) =>
               /\ trace[w].evaluated = 0
               /\ trace[w].wrote = 0
               /\ trace[w].lead = 0
               /\ trace[w].skipped = 1
               /\ trace[w].acks = 1
    /\ \A u \in Urls, r \in ReqIds :
           Cardinality({f \in scoreFiles :
                           f.profile.profile_url = u /\ f.requirements_id = r}) <= 1

\* C14: no update of a shared stats counter is lost: whenever no worker thread
\* is between the read and the write of an update, every counter equals the
\* net number of updates made to it.
C14_NoLostUpdate ==
    (\A w \in TaskWorkers : task.wpc[w] \notin {"inc_w", "cnt_w", "dec_w"}) =>
        \A k \in {"processing", "completed", "failed"} : task.stats[k] = task.ops[k]

\* the deliveries the broker has made on a queue and that are not settled
Unsettled(kind, published, queue) ==
    {n \in 1..published :
        /\ ~Settled(<<kind, n>>)
        /\ \A i \in DOMAIN queue : queue[i].id # <<kind, n>>}

C16_ShutdownWaitsForJobs ==
    main = "exited" =>
        \A w \in Workers : cur[w] # NoMsg => Settled(cur[w].id)

C18_EvaluatorDeterministic ==
    ev.stage = "twice" => ev.first = ev.second

\* a checklist specification: the keys of the point format are all absent
IsChecklist(requirements) ==
    requirements = ChecklistSpec(requirements.position, requirements.requirements)

\* C19: for a checklist with at least one requirement the percentage the
\* scorer reports is matched / total_requirements * 100 for some number of
\* matched requirements, and for requirements = [] the total score and the
\* percentage are 0.
C19_PercentageIsMatchedShare ==
    (ev.stage \in {"once", "twice"} /\ IsChecklist(ev.requirements)) =>
        LET total_requirements == Len(ev.requirements.requirements)
        IN  IF total_requirements = 0
            THEN ev.first.total_score = 0 /\ ev.first.percentage = 0
            ELSE \E matched \in 0..total_requirements :
                    ev.first.percentage * total_requirements = matched * 100

\* C20: the profile and the five-item checklist of the end-to-end example
\* score a percentage of 100.
C20_ExampleScoresFull ==
    (/\ ev.stage \in {"once", "twice"}
     /\ ev.profile = ExampleProfile
     /\ ev.requirements = ExampleSpec) => ev.first.percentage = 100

----------------------------------------------------------------------------
(* Claims C21 - C30 *)

\* the scorer has scored ev.profile against requirements of the point format
Scored == ev.stage \in {"once", "twice"} /\ ~IsChecklist(ev.requirements)

\* C21: a non-empty required gender is matched (15 points) exactly when it is,
\* case-insensitively, a whole word of the profile's gender: "male" does not
\* match "female", and a profile with no gender is not matched.
C21_GenderWholeWord ==
    (Scored /\ ev.requirements.required_gender # s_empty) =>
        LET words == split(lower(ev.profile.gender))
        IN  (ev.first.breakdown.demographics.gender = 15)
            <=> (\E i \in DOMAIN words : words[i] = lower(ev.requirements.required_gender))

\* C22: a gender or location requirement with an empty value is always
\* counted as matched, with full credit, for every profile.
C22_EmptyRequirementMatches ==
    Scored =>
        /\ ev.requirements.required_gender = s_empty
              => ev.first.breakdown.demographics.gender = 15
        /\ ev.requirements.required_location = s_empty
              => ev.first.breakdown.demographics.location = 15

\* C23: the age range is inclusive at both ends: a candidate whose age is
\* min, max or anything between them is matched and receives the full age
\* credit.
C23_AgeRangeInclusive ==
    (/\ Scored
     /\ ev.requirements.required_age_range.given
     /\ ev.requirements.required_age_range.min <= profile_age(ev.profile)
     /\ profile_age(ev.profile) <= ev.requirements.required_age_range.max)
        => /\ ev.first.breakdown.demographics.age = 10
           /\ ev.first.breakdown.demographics.age_match

C23_Witness ==
    /\ Scored
    /\ ev.requirements.required_age_range.given
    /\ profile_age(ev.profile) = ev.requirements.required_age_range.max
    /\ ev.first.breakdown.demographics.age_match

\* C24: a profile with no experiences, scored against a minimum of experience
\* years greater than 0, receives no experience credit and is reported as
\* not meeting the requirement.
C24_NoExperienceNoCredit ==
    (/\ Scored
     /\ ev.profile.experiences = <<>>
     /\ ev.requirements.min_experience_years > 0)
        => /\ ev.first.breakdown.experience.score = 0
           /\ ~ev.first.breakdown.experience.meets_requirement

C24_Witness ==
    /\ Scored
    /\ ev.profile.experiences = <<>>
    /\ ev.requirements.min_experience_years = 1
    /\ ev.first.breakdown.experience.score = 0

\* C25: the candidate age is profile.age when present, otherwise the 'value'
\* field of profile.estimated_age; the age requirement is matched iff that
\* age lies in [min, max], and never when the profile has neither age.
C25_AgeFallsBackToEstimate ==
    (Scored /\ ev.requirements.required_age_range.given) =>
        LET age == IF ev.profile.age # 0 THEN ev.profile.age
                   ELSE ev.profile.estimated_age.value
        IN  ev.first.breakdown.demographics.age_match
            <=> /\ age # 0
                /\ ev.requirements.required_age_range.min <= age
                /\ age <= ev.requirements.required_age_range.max

\* C26: an education requirement is matched (10 points) iff the candidate's
\* highest level is at least the required level; a profile with no education
\* data has level 0 and is matched only when the required level resolves to 0.
C26_EducationOrdinal ==
    (Scored /\ ev.requirements.education_level # <<>>) =>
        LET education == ev.profile.education
            highest == highest_level([i \in DOMAIN education |-> education[i].degree])
        IN  (ev.first.breakdown.education.score = 10)
            <=> (highest >= highest_level(ev.requirements.education_level))

\* C27: the scheduler's jobs track the stored status: a schedule stored as
\* 'active' has a registered, un-paused job, and a schedule that is paused
\* or deleted has no job that can fire.
C27_JobsTrackStatus ==
    sched.running =>
        \A id \in ScheduleIds :
            (sched.rows[id].status = "active") <=> (sched.jobs[id] = "scheduled")

\* C28: no delivery is resolved twice: a callback of a crawl worker or of a
\* scoring worker issues at most one ack or nack for the delivery it handles,
\* also when a step after the ack (the scraper's close()) raises.
C28_ResolvedOnce ==
    \A w \in CrawlWorkers \cup ScoreWorkers :
        trace[w].acks + trace[w].nacks <= 1

\* C29: run_crawl_task terminates: every URL that a worker takes from
\* url_queue is marked done, so url_queue.join() eventually returns, also when
\* recording the crawl history, the login or the scrape raises.
C29_JoinReturns ==
    <>(task.stage = "completed")

\* C30: stats['processing'] of the crawl consumer and of the scoring consumer
\* counts the callbacks that are handling a job: it is never negative, never
\* above the number of workers, and 0 whenever every worker is idle, also
\* after jobs in which the scraper's construction, the scrape, the publish or
\* the ack raised.
C30_ProcessingCountsCallbacks ==
    /\ stats.processing >= 0
    /\ stats.processing <= Cardinality(CrawlWorkers)
    /\ sstats.processing >= 0
    /\ sstats.processing <= Cardinality(ScoreWorkers)
    /\ (\A w \in CrawlWorkers : pc[w] \in {"idle", "stopped"}) => stats.processing = 0
    /\ (\A w \in ScoreWorkers : pc[w] \in {"idle", "stopped"}) => sstats.processing = 0

\* C31: the duplicate lookups report no false duplicate:
\* check_if_already_crawled(u) is true only if a profile with profile_url u
\* was saved, check_if_already_scored(u, r) only if a score of exactly (u, r)
\* was saved, and a scoring job is skipped only for such a saved score.
C31_NoFalseDuplicate ==
    /\ \A u \in Urls \cup {"u3"} :
          check_if_already_crawled(u, files) =>
              \E f \in files : f.data.profile_url = u
    /\ \A u \in Urls \cup {"u3"}, r \in ReqIds :
          check_if_already_scored(u, r, scoreFiles) =>
              \E f \in scoreFiles : f.profile.profile_url = u /\ f.requirements_id = r
    /\ \A w \in ScoreWorkers :
          trace[w].skipped = 1 =>
              \E f \in scoreFiles : /\ f.profile.profile_url = cur[w].profile_url
                                    /\ f.requirements_id = ReqIdOf(cur[w])

\* C32: an outreach job for a profile_url that already has a Lead changes
\* only the Lead's connection_status and name: the scraped profile_data and
\* the score of the Lead are after the job what they were before it.
C32_OutreachKeepsProfileAndScore ==
    \A before \in outreach.last.before :
        before.profile_url = outreach.last.profile_url =>
            \E lead \in leads : /\ lead.id = before.id
                                /\ lead.profile_data = before.profile_data
                                /\ lead.score = before.score

\* C33: outreach is a dry run unless the message says dry_run = false: a job
\* whose message does not carry dry_run = false never clicks Send, its status
\* is never 'sent' and it never sets a Lead to 'connection_sent'.
C33_DryRunByDefault ==
    outreach.last.dry_run # "false" =>
        /\ ~outreach.last.clicked
        /\ outreach.last.status # "sent"
        /\ \A lead \in leads :
              (lead.profile_url = outreach.last.profile_url
                 /\ lead.connection_status = "connection_sent")
              => lead \in outreach.last.before

\* C34: toggle_schedule on a schedule id that does not exist answers 404 and
\* changes neither the stored schedules nor the scheduler's jobs; on an
\* existing schedule it stores the other status and returns it.
C34_ToggleMissingIs404 ==
    sched.response.op = "toggle" =>
        IF sched.response.found
        THEN sched.response.code = 200 =>
                /\ sched.response.status = sched.rows[sched.response.id].status
                /\ sched.response.status # sched.response.rows[sched.response.id].status
                /\ sched.response.status \in {"active", "paused"}
        ELSE /\ sched.response.code = 404
             /\ sched.rows = sched.response.rows
             /\ sched.jobs = sched.response.jobs

\* C35: the lead-inserted webhook publishes exactly one CrawlJob for an INSERT
\* on leads_list with a non-empty profile_url and nothing for any other
\* payload; it answers success only when the job was published, and a publish
\* that failed is answered with an error.
C35_WebhookPublishesOnce ==
    sched.response.op = "webhook" =>
        LET accepted == /\ sched.response.type = "INSERT"
                        /\ sched.response.table = "leads_list"
                        /\ sched.response.profile_url # Empty
            added == Len(crawlQ) - Len(sched.response.queue)
        IN  /\ SubSeq(crawlQ, 1, Len(sched.response.queue)) = sched.response.queue
            /\ ~accepted => added = 0 /\ ~sched.response.success
            /\ accepted => added <= 1
            /\ sched.response.success =>
                  /\ added = 1
                  /\ crawlQ[Len(crawlQ)].url = sched.response.profile_url
                  /\ sched.response.code = 200
            /\ (accepted /\ ~sched.response.success) => sched.response.code = 500
            /\ (accepted /\ sched.response.code = 200) => added = 1

C35_Witness ==
    /\ sched.response.op = "webhook"
    /\ sched.response.success
    /\ Len(crawlQ) = Len(sched.response.queue) + 1
    /\ sched.response.queue # <<>>

\* C36: every message a callback resolves is counted once: an acked message
\* adds 1 to completed and 0 to failed, a nacked message adds 1 to failed and
\* 0 to completed, so with every worker idle completed + failed is the
\* number of messages resolved.
C36_ResolvedCountedOnce ==
    /\ \A w \in Workers :
          pc[w] = "done" =>
              /\ trace[w].acks >= 1 => trace[w].completed = 1 /\ trace[w].failed = 0
              /\ trace[w].nacks >= 1 => trace[w].failed = 1 /\ trace[w].completed = 0
    /\ (\A w \in Workers : pc[w] = "idle") =>
          stats.completed + stats.failed + sstats.completed + sstats.failed
             = Cardinality(ackedIds \cup nackedIds)

\* C37: score() returns a total between 0 and 100 and never raises, for every
\* profile and all requirements whose skill weights and min_experience_years
\* are non-negative integers, also when every skill weight is 0: no sub-score
\* divides by zero.
C37_ScoreInRangeNeverRaises ==
    ev.stage \in {"once", "twice"} =>
        /\ ev.first.total_score # ZeroDivisionError
        /\ ev.first.total_score >= 0
        /\ ev.first.total_score <= 100

====
